---- MODULE Spec2Model ----
(***************************************************************************)
(* Worldwide Intel Coverage API (src/intel/worker.js): feed ingest,        *)
(* scoring, de-duplication / clustering and the request dispatcher.        *)
(*                                                                         *)
(* Text is modelled as sequences of one-character strings so that          *)
(* toLowerCase, the tokenizer's regular expressions, storyKey and the      *)
(* substring matching of the topic dictionaries are computed, not assumed. *)
(*                                                                         *)
(* Time is counted in units of 3.6 s (one thousandth of an hour), so       *)
(* 36e5 ms = 1000 units.  ageH is kept in hundredths of an hour, scores in *)
(* thousandths, source weights in hundredths.                              *)
(***************************************************************************)
EXTENDS Integers, Sequences, FiniteSets, TLC

\* ------------------------------ Config --------------------------------

\* FEEDS (weights in hundredths).  The model ingests the first two entries of
\* the source table; src, weight and region are the source's.
FEEDS ==
  << [src |-> "Reuters", weight |-> 98, region |-> <<"G","l","o","b","a","l">>],
     [src |-> "AP",      weight |-> 97, region |-> <<"G","l","o","b","a","l">>] >>

FeedIds == DOMAIN FEEDS

DEFAULT_SINCE_HOURS == 24
DEFAULT_LIMIT == 80
MAX_PER_SOURCE == 120

TOPICS ==
  << [tag |-> "PRC/China", kws |-> << <<"c","h","i","n","a">>, <<"b","e","i","j","i","n","g">>, <<"p","l","a">>, <<"x","i"," ","j","i","n","p","i","n","g">>, <<"t","a","i","w","a","n">>, <<"p","r","c">>, <<"c","p","c">>, <<"s","o","u","t","h"," ","c","h","i","n","a"," ","s","e","a">>, <<"s","h","a","n","g","h","a","i">>, <<"b","e","i","d","o","u">> >>],
     [tag |-> "Russia/Ukraine", kws |-> << <<"r","u","s","s","i","a">>, <<"p","u","t","i","n">>, <<"m","o","s","c","o","w">>, <<"u","k","r","a","i","n","e">>, <<"k","y","i","v">>, <<"d","o","n","b","a","s">>, <<"c","r","i","m","e","a">>, <<"r","o","s","t","o","v">>, <<"b","l","a","c","k"," ","s","e","a">>, <<"s","e","v","a","s","t","o","p","o","l">> >>],
     [tag |-> "Iran", kws |-> << <<"i","r","a","n">>, <<"t","e","h","r","a","n">>, <<"i","r","g","c">>, <<"s","t","r","a","i","t"," ","o","f"," ","h","o","r","m","u","z">>, <<"q","o","m">>, <<"i","s","f","a","h","a","n">> >>],
     [tag |-> "DPRK", kws |-> << <<"n","o","r","t","h"," ","k","o","r","e","a">>, <<"d","p","r","k">>, <<"p","y","o","n","g","y","a","n","g">>, <<"k","i","m"," ","j","o","n","g">> >>],
     [tag |-> "Counterterrorism", kws |-> << <<"i","s","i","s">>, <<"i","s","i","l">>, <<"i","s","l","a","m","i","c"," ","s","t","a","t","e">>, <<"a","l","-","q","a","e","d","a">>, <<"b","o","k","o"," ","h","a","r","a","m">>, <<"t","a","l","i","b","a","n">>, <<"t","e","r","r","o","r">>, <<"a","l"," ","s","h","a","b","a","a","b">> >>],
     [tag |-> "Cyber", kws |-> << <<"r","a","n","s","o","m","w","a","r","e">>, <<"c","y","b","e","r">>, <<"m","a","l","w","a","r","e">>, <<"a","p","t">>, <<"p","h","i","s","h","i","n","g">>, <<"d","d","o","s">>, <<"z","e","r","o","-","d","a","y">>, <<"b","o","t","n","e","t">>, <<"b","r","e","a","c","h">> >>],
     [tag |-> "WMD", kws |-> << <<"n","u","c","l","e","a","r">>, <<"u","r","a","n","i","u","m">>, <<"c","e","n","t","r","i","f","u","g","e">>, <<"m","i","s","s","i","l","e">>, <<"i","c","b","m">>, <<"h","y","p","e","r","s","o","n","i","c">>, <<"c","h","e","m","i","c","a","l">>, <<"b","i","o","w","e","a","p","o","n">>, <<"r","e","p","r","o","c","e","s","s","i","n","g">> >>],
     [tag |-> "Energy", kws |-> << <<"o","i","l">>, <<"g","a","s">>, <<"l","n","g">>, <<"p","i","p","e","l","i","n","e">>, <<"o","p","e","c">>, <<"r","e","f","i","n","e","r","y">>, <<"u","r","a","n","i","u","m">>, <<"c","o","a","l">>, <<"g","r","i","d">>, <<"b","l","a","c","k","o","u","t">> >>],
     [tag |-> "Space/EO", kws |-> << <<"s","a","t","e","l","l","i","t","e">>, <<"s","p","a","c","e">>, <<"s","p","a","c","e","x">>, <<"i","s","r","o">>, <<"e","s","a">>, <<"s","p","u","t","n","i","k">>, <<"l","a","u","n","c","h">>, <<"r","o","c","k","e","t">>, <<"p","a","y","l","o","a","d">> >>],
     [tag |-> "Health Security", kws |-> << <<"o","u","t","b","r","e","a","k">>, <<"p","a","n","d","e","m","i","c">>, <<"v","a","c","c","i","n","e">>, <<"c","h","o","l","e","r","a">>, <<"e","b","o","l","a">>, <<"a","v","i","a","n"," ","f","l","u">>, <<"c","o","v","i","d">> >>],
     [tag |-> "Middle East", kws |-> << <<"g","a","z","a">>, <<"i","s","r","a","e","l">>, <<"h","e","z","b","o","l","l","a","h">>, <<"l","e","b","a","n","o","n">>, <<"w","e","s","t"," ","b","a","n","k">>, <<"i","d","f">>, <<"h","a","m","a","s">>, <<"h","o","u","t","h","i">>, <<"r","e","d"," ","s","e","a">> >>],
     [tag |-> "Indo-Pacific", kws |-> << <<"a","s","e","a","n">>, <<"s","o","u","t","h"," ","p","a","c","i","f","i","c">>, <<"a","u","s","t","r","a","l","i","a">>, <<"s","o","l","o","m","o","n"," ","i","s","l","a","n","d","s">>, <<"p","a","p","u","a"," ","n","e","w"," ","g","u","i","n","e","a">>, <<"a","o","t","e","a","r","o","a">>, <<"i","n","d","o","p","a","c","i","f","i","c">> >>],
     [tag |-> "Europe", kws |-> << <<"e","u">>, <<"b","r","u","s","s","e","l","s">>, <<"b","e","r","l","i","n">>, <<"p","a","r","i","s">>, <<"r","o","m","e">>, <<"m","a","d","r","i","d">>, <<"w","a","r","s","a","w">>, <<"p","r","a","g","u","e">>, <<"v","i","e","n","n","a">> >>],
     [tag |-> "Africa", kws |-> << <<"s","a","h","e","l">>, <<"n","i","g","e","r">>, <<"m","a","l","i">>, <<"e","t","h","i","o","p","i","a">>, <<"e","r","i","t","r","e","a">>, <<"s","o","m","a","l","i","a">>, <<"k","e","n","y","a">>, <<"s","u","d","a","n">>, <<"d","r"," ","c","o","n","g","o">> >>],
     [tag |-> "Americas", kws |-> << <<"u","n","i","t","e","d"," ","s","t","a","t","e","s">>, <<"c","a","n","a","d","a">>, <<"m","e","x","i","c","o">>, <<"b","r","a","z","i","l">>, <<"a","r","g","e","n","t","i","n","a">>, <<"v","e","n","e","z","u","e","l","a">>, <<"c","o","l","o","m","b","i","a">>, <<"c","h","i","l","e">>, <<"p","e","r","u">> >>] >>

GEO ==
  << [geo |-> "Asia", kws |-> << <<"c","h","i","n","a">>, <<"i","n","d","i","a">>, <<"j","a","p","a","n">>, <<"k","o","r","e","a">>, <<"t","a","i","w","a","n">>, <<"p","h","i","l","i","p","p","i","n","e","s">>, <<"v","i","e","t","n","a","m">>, <<"i","n","d","o","n","e","s","i","a">>, <<"m","a","l","a","y","s","i","a">>, <<"t","h","a","i","l","a","n","d">>, <<"m","y","a","n","m","a","r">>, <<"p","a","k","i","s","t","a","n">>, <<"a","f","g","h","a","n","i","s","t","a","n">>, <<"b","a","n","g","l","a","d","e","s","h">>, <<"s","r","i"," ","l","a","n","k","a">>, <<"n","e","p","a","l">>, <<"m","o","n","g","o","l","i","a">> >>],
     [geo |-> "Europe", kws |-> << <<"u","k">>, <<"b","r","i","t","a","i","n">>, <<"f","r","a","n","c","e">>, <<"g","e","r","m","a","n","y">>, <<"i","t","a","l","y">>, <<"s","p","a","i","n">>, <<"p","o","l","a","n","d">>, <<"r","o","m","a","n","i","a">>, <<"n","e","t","h","e","r","l","a","n","d","s">>, <<"b","e","l","g","i","u","m">>, <<"s","w","e","d","e","n">>, <<"n","o","r","w","a","y">>, <<"f","i","n","l","a","n","d">>, <<"d","e","n","m","a","r","k">>, <<"a","u","s","t","r","i","a">>, <<"i","r","e","l","a","n","d">>, <<"c","z","e","c","h">>, <<"g","r","e","e","c","e">>, <<"u","k","r","a","i","n","e">>, <<"r","u","s","s","i","a">> >>],
     [geo |-> "MEA", kws |-> << <<"i","s","r","a","e","l">>, <<"g","a","z","a">>, <<"l","e","b","a","n","o","n">>, <<"s","y","r","i","a">>, <<"i","r","a","q">>, <<"i","r","a","n">>, <<"s","a","u","d","i">>, <<"u","a","e">>, <<"q","a","t","a","r">>, <<"y","e","m","e","n">>, <<"o","m","a","n">>, <<"j","o","r","d","a","n">>, <<"b","a","h","r","a","i","n">>, <<"e","g","y","p","t">>, <<"m","o","r","o","c","c","o">>, <<"a","l","g","e","r","i","a">>, <<"t","u","n","i","s","i","a">>, <<"t","u","r","k","e","y">> >>],
     [geo |-> "Africa", kws |-> << <<"n","i","g","e","r","i","a">>, <<"s","o","u","t","h"," ","a","f","r","i","c","a">>, <<"k","e","n","y","a">>, <<"e","t","h","i","o","p","i","a">>, <<"s","o","m","a","l","i","a">>, <<"s","u","d","a","n">>, <<"m","a","l","i">>, <<"n","i","g","e","r">>, <<"g","h","a","n","a">>, <<"i","v","o","r","y"," ","c","o","a","s","t">>, <<"c","a","m","e","r","o","o","n">>, <<"t","a","n","z","a","n","i","a">>, <<"u","g","a","n","d","a">>, <<"d","r"," ","c","o","n","g","o">> >>],
     [geo |-> "Americas", kws |-> << <<"u","n","i","t","e","d"," ","s","t","a","t","e","s">>, <<"c","a","n","a","d","a">>, <<"m","e","x","i","c","o">>, <<"b","r","a","z","i","l">>, <<"a","r","g","e","n","t","i","n","a">>, <<"c","h","i","l","e">>, <<"p","e","r","u">>, <<"v","e","n","e","z","u","e","l","a">>, <<"c","o","l","o","m","b","i","a">>, <<"e","c","u","a","d","o","r">>, <<"b","o","l","i","v","i","a">>, <<"p","a","r","a","g","u","a","y">>, <<"u","r","u","g","u","a","y">> >>],
     [geo |-> "Oceania", kws |-> << <<"a","u","s","t","r","a","l","i","a">>, <<"n","e","w"," ","z","e","a","l","a","n","d">>, <<"p","a","p","u","a">>, <<"s","o","l","o","m","o","n"," ","i","s","l","a","n","d","s">>, <<"f","i","j","i">>, <<"s","a","m","o","a">>, <<"t","o","n","g","a">>, <<"v","a","n","u","a","t","u">> >>] >>

StopWords ==
  { <<"w","i","t","h">>,
    <<"f","r","o","m">>,
    <<"t","h","a","t">>,
    <<"t","h","i","s">>,
    <<"h","a","v","e">>,
    <<"w","i","l","l">>,
    <<"a","f","t","e","r">>,
    <<"o","v","e","r">>,
    <<"a","m","i","d">>,
    <<"i","n","t","o">>,
    <<"m","o","r","e">>,
    <<"t","h","a","n">>,
    <<"w","e","r","e">>,
    <<"b","e","e","n">>,
    <<"s","a","y","s">>,
    <<"a","b","o","u","t">>,
    <<"o","n","t","o">>,
    <<"i","n","t","o">>,
    <<"a","m","i","d","s","t">>,
    <<"u","n","d","e","r">>,
    <<"i","n","t","o">>,
    <<"n","e","a","r">>,
    <<"a","m","i","d">> }


TitleChinaSat ==
  <<"C","h","i","n","a"," ","l","a","u","n","c","h","e","s"," ","n","e","w"," ","s","a","t","e","l","l","i","t","e">>

TitleBeijingSat ==
  <<"B","e","i","j","i","n","g"," ","L","a","u","n","c","h","e","s"," ","N","e","w"," ","S","a","t","e","l","l","i","t","e"," ","f","o","r"," ","O","b","s","e","r","v","a","t","i","o","n">>

TitleIranResume ==
  <<"I","r","a","n"," ","n","u","c","l","e","a","r"," ","t","a","l","k","s"," ","r","e","s","u","m","e">>

TitleIranStall ==
  <<"I","r","a","n"," ","n","u","c","l","e","a","r"," ","t","a","l","k","s"," ","s","t","a","l","l">>

TitleIranMay ==
  <<"I","r","a","n"," ","n","u","c","l","e","a","r"," ","t","a","l","k","s"," ","t","o"," ","r","e","s","u","m","e"," ","i","n"," ","M","a","y",","," ","U","N"," ","s","a","y","s">>

TitleUnGo ==
  <<"U","N",":"," ","g","o"," ","n","o","w">>

TitleEuOut ==
  <<"E","U"," ","i","s"," ","o","u","t">>

TitleNavalDrill ==
  <<"R","u","s","s","i","a",","," ","C","h","i","n","a",","," ","I","r","a","n"," ","h","o","l","d"," ","n","a","v","a","l"," ","d","r","i","l","l">>


TitleTalksFriday ==
  <<"N","u","c","l","e","a","r"," ","t","a","l","k","s"," ","r","e","s","u","m","e"," ","F","r","i","d","a","y">>

TitleBlank == <<" "," ">>
DescBrussels ==
  <<"B","r","u","s","s","e","l","s"," ","v","o","t","e">>

ParamZero == <<"0">>
ParamOne == <<"1">>
ParamTwo == <<"2">>
ParamAbsent == <<>>
ParamMinusOne == <<"-","1">>
ParamHuge == <<"9","9","9","9","9">>
ParamAbc == <<"a","b","c">>
\* q of /api/search
QueryIranTalks == <<"I","r","a","n"," ","t","a","l","k","s">>
QueryChina == <<"c","h","i","n","a">>

\* The characters of the tag and geo names.
TagText ==
  ("Africa" :> <<"A","f","r","i","c","a">>) @@
  ("Americas" :> <<"A","m","e","r","i","c","a","s">>) @@
  ("Counterterrorism" :> <<"C","o","u","n","t","e","r","t","e","r","r","o","r","i","s","m">>) @@
  ("Cyber" :> <<"C","y","b","e","r">>) @@
  ("DPRK" :> <<"D","P","R","K">>) @@
  ("Energy" :> <<"E","n","e","r","g","y">>) @@
  ("Europe" :> <<"E","u","r","o","p","e">>) @@
  ("Health Security" :> <<"H","e","a","l","t","h"," ","S","e","c","u","r","i","t","y">>) @@
  ("Indo-Pacific" :> <<"I","n","d","o","-","P","a","c","i","f","i","c">>) @@
  ("Iran" :> <<"I","r","a","n">>) @@
  ("Middle East" :> <<"M","i","d","d","l","e"," ","E","a","s","t">>) @@
  ("PRC/China" :> <<"P","R","C","/","C","h","i","n","a">>) @@
  ("Russia/Ukraine" :> <<"R","u","s","s","i","a","/","U","k","r","a","i","n","e">>) @@
  ("Space/EO" :> <<"S","p","a","c","e","/","E","O">>) @@
  ("WMD" :> <<"W","M","D">>) @@
  ("Asia" :> <<"A","s","i","a">>) @@
  ("MEA" :> <<"M","E","A">>) @@
  ("Oceania" :> <<"O","c","e","a","n","i","a">>)
\* ------------------------ Utilities & glue ---------------------------

Min(a, b) == IF a <= b THEN a ELSE b
Max(a, b) == IF a >= b THEN a ELSE b

\* Nearest integer to num/den (den > 0), halves away from zero: Number.toFixed.
RoundDiv(num, den) ==
  IF num >= 0 THEN (2 * num + den) \div (2 * den)
              ELSE -((2 * (-num) + den) \div (2 * den))

UpperChars ==
  <<"A","B","C","D","E","F","G","H","I","J","K","L","M",
    "N","O","P","Q","R","S","T","U","V","W","X","Y","Z">>
LowerChars ==
  <<"a","b","c","d","e","f","g","h","i","j","k","l","m",
    "n","o","p","q","r","s","t","u","v","w","x","y","z">>
DigitChars == <<"0","1","2","3","4","5","6","7","8","9">>
SpaceChars == {" ", "\t", "\n", "\r"}

Range(s) == {s[i] : i \in DOMAIN s}

toLowerChar(c) ==
  IF \E i \in DOMAIN UpperChars : UpperChars[i] = c
    THEN LowerChars[CHOOSE i \in DOMAIN UpperChars : UpperChars[i] = c]
    ELSE c

toLower(str) == [i \in 1..Len(str) |-> toLowerChar(str[i])]

\* .replace(/[^a-z0-9\s]/g, " ")
ReplaceNonAlnum(s) ==
  [i \in 1..Len(s) |->
     IF s[i] \in Range(LowerChars) \cup Range(DigitChars) \cup SpaceChars
       THEN s[i] ELSE " "]

\* .split(/\s+/).filter(Boolean): the maximal runs of non-space characters
RECURSIVE SplitWords(_, _, _, _)
SplitWords(s, i, cur, acc) ==
  IF i > Len(s)
    THEN IF cur = <<>> THEN acc ELSE Append(acc, cur)
    ELSE IF s[i] \in SpaceChars
      THEN SplitWords(s, i + 1, <<>>, IF cur = <<>> THEN acc ELSE Append(acc, cur))
      ELSE SplitWords(s, i + 1, Append(cur, s[i]), acc)

tokenize(s) == SplitWords(ReplaceNonAlnum(toLower(s)), 1, <<>>, <<>>)

\* inter / union as the exact fraction [num, den]; 0 when the union is empty.
jaccard(a, b) ==
  LET A == Range(a)
      B == Range(b)
      inter == Cardinality({x \in A : x \in B})
      union == Cardinality(A) + Cardinality(B) - inter
  IN  IF union # 0 THEN [num |-> inter, den |-> union] ELSE [num |-> 0, den |-> 1]

\* q > 0.6
AtLeastSixTenths_strict(q) == 5 * q.num > 3 * q.den

\* q >= 0.6.  5 * num >= 3 * den decides it exactly: the double quotient is
\* correctly rounded and the literal 0.6 is the double nearest to 3/5.
AtLeastSixTenths(q) == 5 * q.num >= 3 * q.den

RECURSIVE Join(_, _)
Join(words, sep) ==
  IF words = <<>> THEN <<>>
  ELSE IF Len(words) = 1 THEN words[1]
  ELSE words[1] \o sep \o Join(Tail(words), sep)

storyKey(title) ==
  LET kept == SelectSeq(tokenize(title), LAMBDA w : Len(w) > 3 /\ w \notin StopWords)
  IN  Join(SubSeq(kept, 1, Min(Len(kept), 8)), <<"-">>)

\* String.prototype.trim
RECURSIVE TrimLeft(_)
TrimLeft(s) == IF s # <<>> /\ Head(s) \in SpaceChars THEN TrimLeft(Tail(s)) ELSE s
RECURSIVE TrimRight(_)
TrimRight(s) ==
  IF s # <<>> /\ s[Len(s)] \in SpaceChars THEN TrimRight(SubSeq(s, 1, Len(s) - 1)) ELSE s
Trim(s) == TrimRight(TrimLeft(s))

\* Array.prototype.slice(0, end)
Slice0(s, end) ==
  SubSeq(s, 1, IF end < 0 THEN Max(Len(s) + end, 0) ELSE Min(end, Len(s)))

\* Array.prototype.sort (stable) under a comparator that orders by a pair of
\* numbers, larger first: keys[i] is the pair of s[i].
SortDesc(s, keys) ==
  LET n == Len(s)
      before(i, j) == \/ keys[i][1] > keys[j][1]
                      \/ keys[i][1] = keys[j][1] /\ keys[i][2] > keys[j][2]
      rank(i) == 1 + Cardinality({j \in 1..n : before(j, i) \/ (~before(i, j) /\ j < i)})
  IN  [p \in 1..n |-> s[CHOOSE i \in 1..n : rank(i) = p]]

\* items.sort((a, b) => b.ts - a.ts)
SortByTs(arr) == SortDesc(arr, [k \in 1..Len(arr) |-> <<arr[k].ts, 0>>])

\* items.sort((a, b) => b.score - a.score)
SortByScore(arr) == SortDesc(arr, [k \in 1..Len(arr) |-> <<arr[k].score, 0>>])

RECURSIVE FlatMap(_)
FlatMap(ss) == IF ss = <<>> THEN <<>> ELSE Head(ss) \o FlatMap(Tail(ss))

\* String.prototype.includes
Includes(t, k) ==
  \E i \in 1..(Len(t) - Len(k) + 1) : \A j \in 1..Len(k) : t[i + j - 1] = k[j]

tagTopics(text) ==
  LET t == toLower(text)
      hit == SelectSeq(TOPICS, LAMBDA e : \E n \in DOMAIN e.kws : Includes(t, e.kws[n]))
  IN  [i \in 1..Len(hit) |-> hit[i].tag]

tagGeo(text) ==
  LET t == toLower(text)
      hit == SelectSeq(GEO, LAMBDA e : \E n \in DOMAIN e.kws : Includes(t, e.kws[n]))
  IN  [i \in 1..Len(hit) |-> hit[i].geo]

\* --------------------------- Model inputs ----------------------------

\* Date.now() when the feeds are fetched and parsed, in units of 3.6 s.
Clock0 == 1000000
\* Time that may pass between parsing a feed and scoring its items.
ScoreDelay == 20
\* Entries the feed documents of one request hold in total.
MaxNodes == 3

\* Text of a <pubDate>/<updated>/<published> element: a date Date.parse
\* understands (with its epoch time) or anything else (missing, garbage).
DateText(t) == [valid |-> TRUE, ts |-> t]
NoDateText == [valid |-> FALSE, ts |-> 0]

\* A sample <link>: //n.io/ followed by the n-th letter
Link(n) == <<"/","/","n",".","i","o","/">> \o <<LowerChars[n]>>

\* The <item>/<entry> nodes a feed document is made of.
NodePool ==
  << [title |-> TitleChinaSat,   link |-> Link(1),  desc |-> <<>>, pub |-> DateText(Clock0 - 1000)],
     [title |-> TitleBeijingSat, link |-> Link(2),  desc |-> <<>>, pub |-> DateText(Clock0 - 2000)],
     [title |-> TitleIranResume, link |-> Link(3),  desc |-> <<>>, pub |-> DateText(Clock0 - 3000)],
     [title |-> TitleIranStall,  link |-> Link(4),  desc |-> <<>>, pub |-> DateText(Clock0 - 24004)],
     [title |-> TitleIranMay,    link |-> Link(5),  desc |-> <<>>, pub |-> NoDateText],
     [title |-> TitleUnGo,       link |-> Link(6),  desc |-> <<>>, pub |-> DateText(Clock0)],
     [title |-> TitleEuOut,      link |-> Link(7),  desc |-> DescBrussels, pub |-> NoDateText],
     [title |-> TitleNavalDrill, link |-> Link(8),  desc |-> <<>>, pub |-> DateText(Clock0 + 2000)],
     [title |-> TitleChinaSat,   link |-> Link(9),  desc |-> <<>>, pub |-> DateText(Clock0 - 40000)],
     [title |-> TitleBlank,      link |-> Link(10), desc |-> <<>>, pub |-> DateText(Clock0 - 1000)],
     [title |-> TitleIranResume, link |-> Link(11), desc |-> <<>>, pub |-> DateText(0)] >>

\* Entries for the merge pass of clusterItems, published within two minutes:
\* the first title is close to the second and to the third, which are not
\* close to each other; the last two are another story under two titles
\* that are not close.
MergePool ==
  << [title |-> TitleIranResume,  link |-> Link(12), desc |-> <<>>, pub |-> DateText(Clock0 - 1030)],
     [title |-> TitleIranStall,   link |-> Link(13), desc |-> <<>>, pub |-> DateText(Clock0 - 1020)],
     [title |-> TitleTalksFriday, link |-> Link(14), desc |-> <<>>, pub |-> DateText(Clock0 - 1010)],
     [title |-> TitleChinaSat,    link |-> Link(15), desc |-> <<>>, pub |-> DateText(Clock0 - 1000)],
     [title |-> TitleBeijingSat,  link |-> Link(16), desc |-> <<>>, pub |-> DateText(Clock0 - 990)] >>

\* Feed documents: entries of the pool, listed in pool order.
Docs ==
  LET idx == {s \in UNION {[1..k -> DOMAIN NodePool] : k \in 0..MaxNodes} :
                 \A i, j \in DOMAIN s : i < j => s[i] < s[j]}
  IN  {[i \in DOMAIN s |-> NodePool[s[i]]] : s \in idx}

\* --------------------------- Feed ingest -----------------------------

parseDateAny(s, clock) == IF s.valid THEN s.ts ELSE clock

\* fetchFeed once fetchRetry has delivered the document `doc` at time `clock`
fetchFeed(feed, doc, clock) ==
  LET nodes == SubSeq(doc, 1, Min(Len(doc), MAX_PER_SOURCE))
      items == [i \in 1..Len(nodes) |->
                  [src    |-> feed.src,
                   region |-> feed.region,
                   weight |-> feed.weight,
                   title  |-> Trim(nodes[i].title),
                   link   |-> Trim(nodes[i].link),
                   desc   |-> Trim(nodes[i].desc),
                   pub    |-> nodes[i].pub,
                   ts     |-> parseDateAny(nodes[i].pub, clock)]]
  IN  SelectSeq(items, LAMBDA x : x.title # <<>> /\ x.link # <<>>)

TopicText(it) == it.title \o <<" ">> \o it.desc
GeoText(it) == it.title \o <<" ">> \o it.desc \o <<" ">> \o it.region

\* tokenize, storyKey, tagTopics and tagGeo tabulated over the texts the
\* feed entries of this model carry.
PoolItems == UNION {Range(fetchFeed(FEEDS[f], NodePool \o MergePool, Clock0)) : f \in FeedIds}
tokenizeOf == [t \in {it.title : it \in PoolItems} |-> tokenize(t)]
storyKeyOf == [t \in {it.title : it \in PoolItems} |-> storyKey(t)]
tagTopicsOf == [t \in {TopicText(it) : it \in PoolItems} |-> tagTopics(t)]
tagGeoOf == [t \in {GeoText(it) : it \in PoolItems} |-> tagGeo(t)]

scoreItem(it, now) ==
  LET tags == tagTopicsOf[TopicText(it)]
      geos == tagGeoOf[GeoText(it)]
      \* now - (it.ts || now), in thousandths of an hour
      age == now - (IF it.ts # 0 THEN it.ts ELSE now)
      \* 36000 * max(0, 1 - min(ageH, 36) / 36)
      urgency == Max(0, 36000 - Min(age, 36000))
      \* 3 * min(1, tags.length / 3)
      impact == Min(3, Len(tags))
      \* 100 * (it.weight || 0.8)
      confidence == IF it.weight # 0 THEN it.weight ELSE 80
      \* 1000 * (0.5 * impact + 0.3 * confidence + 0.2 * urgency), over 180
      score == RoundDiv(30000 * impact + 540 * confidence + urgency, 180)
  IN  [src |-> it.src, region |-> it.region, weight |-> it.weight,
       title |-> it.title, link |-> it.link, desc |-> it.desc,
       pub |-> it.pub, ts |-> it.ts,
       tags |-> tags, geos |-> geos,
       ageH |-> RoundDiv(age, 10), score |-> score,
       key |-> storyKeyOf[it.title]]

\* bucketing by link alone
BucketKey_linkOnly(it) == it.link

\* it.key || it.link
BucketKey(it) == IF it.key # <<>> THEN it.key ELSE it.link

\* The keys of the Map `buckets`, in insertion order.
RECURSIVE BucketKeys(_, _)
BucketKeys(items, acc) ==
  IF items = <<>> THEN acc
  ELSE LET k == BucketKey(Head(items))
       IN  BucketKeys(Tail(items), IF k \in Range(acc) THEN acc ELSE Append(acc, k))

\* the bucket cut to its first item
Bucket_firstOnly(items, k) == <<SelectSeq(items, LAMBDA it : BucketKey(it) = k)[1]>>

Bucket(items, k) == SelectSeq(items, LAMBDA it : BucketKey(it) = k)

\* a threshold of 0.4
NearDuplicate_fourTenths(baseTitle, candTitle) ==
  LET q == jaccard(tokenizeOf[baseTitle], tokenizeOf[candTitle])
  IN  5 * q.num >= 2 * q.den

\* jaccard(baseTitleTokens, candTokens) >= 0.6
\* every later bucket joins the seed
NearDuplicate_any(baseTitle, candTitle) == TRUE

NearDuplicate(baseTitle, candTitle) ==
  AtLeastSixTenths(jaccard(tokenizeOf[baseTitle], tokenizeOf[candTitle]))

\* The loop over i of the merge pass: `merged` as the sequence of its entries.
RECURSIVE MergeBuckets(_, _, _, _, _)
MergeBuckets(items, keys, i, used, merged) ==
  IF i > Len(keys) THEN merged
  ELSE IF keys[i] \in used THEN MergeBuckets(items, keys, i + 1, used, merged)
  ELSE
    LET base == Bucket(items, keys[i])[1].title
        cand == SelectSeq([j \in 1..Len(keys) |-> j],
                  LAMBDA j : /\ j > i
                             /\ keys[j] \notin used
                             /\ NearDuplicate(base, Bucket(items, keys[j])[1].title))
        group == <<keys[i]>> \o [n \in 1..Len(cand) |-> keys[cand[n]]]
        arr == FlatMap([n \in 1..Len(group) |-> Bucket(items, group[n])])
    IN  MergeBuckets(items, keys, i + 1,
                     used \cup {keys[cand[n]] : n \in 1..Len(cand)},
                     Append(merged, [seedKey |-> keys[i], arr |-> arr]))

\* [...new Set(xs)]: first occurrences, in order
RECURSIVE Distinct(_, _)
Distinct(xs, acc) ==
  IF xs = <<>> THEN acc
  ELSE Distinct(Tail(xs), IF Head(xs) \in Range(acc) THEN acc ELSE Append(acc, Head(xs)))

RECURSIVE MaxOver(_, _)
MaxOver(xs, start) == IF xs = <<>> THEN start ELSE MaxOver(Tail(xs), Max(start, Head(xs)))
RECURSIVE MinOver(_, _)
MinOver(xs, start) == IF xs = <<>> THEN start ELSE MinOver(Tail(xs), Min(start, Head(xs)))

\* Number.MAX_SAFE_INTEGER, cut to the largest integer of TLC's arithmetic
MAX_SAFE_INTEGER == 2147483647

\* srcs collected without the Set: one entry per item
BuildCluster_srcPerItem(seedKey, arr) ==
  LET maxScore == MaxOver([n \in 1..Len(arr) |-> arr[n].score], 0)
      newestTs == MaxOver([n \in 1..Len(arr) |-> arr[n].ts], 0)
      oldestTs == MinOver([n \in 1..Len(arr) |-> arr[n].ts], MAX_SAFE_INTEGER)
      srcs == [n \in 1..Len(arr) |-> arr[n].src]
      corroboration == Min(4, Len(srcs) - 1)
  IN  [key |-> seedKey,
       score |-> RoundDiv(4 * maxScore + 250 * corroboration, 5),
       tags |-> Distinct(FlatMap([n \in 1..Len(arr) |-> arr[n].tags]), <<>>),
       geos |-> Distinct(FlatMap([n \in 1..Len(arr) |-> arr[n].geos]), <<>>),
       sources |-> srcs,
       firstSeenTs |-> IF oldestTs # 0 THEN oldestTs ELSE newestTs,
       lastSeenTs |-> newestTs,
       items |-> SortByTs(arr)]

\* The body of the loop over merged.entries(): one cluster.
BuildCluster(seedKey, arr) ==
  LET tags == Distinct(FlatMap([n \in 1..Len(arr) |-> arr[n].tags]), <<>>)
      geos == Distinct(FlatMap([n \in 1..Len(arr) |-> arr[n].geos]), <<>>)
      srcs == Distinct([n \in 1..Len(arr) |-> arr[n].src], <<>>)
      maxScore == MaxOver([n \in 1..Len(arr) |-> arr[n].score], 0)
      newestTs == MaxOver([n \in 1..Len(arr) |-> arr[n].ts], 0)
      oldestTs == MinOver([n \in 1..Len(arr) |-> arr[n].ts], MAX_SAFE_INTEGER)
      \* 4 * min(1, (srcs.size - 1) / 4)
      corroboration == Min(4, Len(srcs) - 1)
      \* 1000 * (0.8 * maxScore + 0.2 * corroboration), over 5
      clusterScore == RoundDiv(4 * maxScore + 250 * corroboration, 5)
  IN  [key |-> seedKey,
       score |-> clusterScore,
       tags |-> tags,
       geos |-> geos,
       sources |-> srcs,
       firstSeenTs |-> IF oldestTs # 0 THEN oldestTs ELSE newestTs,
       lastSeenTs |-> newestTs,
       items |-> SortByTs(arr)]

\* the two sort keys in the other order
ClusterSortKey_scoreFirst(c) == <<c.score, Len(c.sources)>>

\* (b.sources.length - a.sources.length) || (b.score - a.score)
ClusterSortKey(c) == <<Len(c.sources), c.score>>
SortClusters(cs) == SortDesc(cs, [k \in 1..Len(cs) |-> ClusterSortKey(cs[k])])

clusterItems(items) ==
  LET merged == MergeBuckets(items, BucketKeys(items, <<>>), 1, {}, <<>>)
      clusters == [n \in 1..Len(merged) |-> BuildCluster(merged[n].seedKey, merged[n].arr)]
  IN  SortClusters(clusters)

\* Promise.all in its place: rejects as soon as one feed does
allSettled_failFast(results) ==
  [rejected |-> \E f \in DOMAIN results : results[f].status = "rejected",
   value |-> results]

\* Promise.allSettled: fulfils with every outcome, never rejects.
allSettled(results) == [rejected |-> FALSE, value |-> results]

\* results.flatMap(r => r.status === "fulfilled" ? r.value : [])
SettledItems(results) ==
  FlatMap([f \in 1..Len(FEEDS) |->
             IF results[f].status = "fulfilled" THEN results[f].value ELSE <<>>])

\* sinceHours taken for days
WithinWindow_days(x, sinceHours) == x.ageH <= 100 * 24 * sinceHours

\* x.ageH <= sinceHours (ageH in hundredths of an hour)
WithinWindow(x, sinceHours) == x.ageH <= 100 * sinceHours

\* aggregateFeeds without a NEWS_KV binding.  sinceHours in hours.
aggregateFeeds(outcomes, sinceHours, limit, now) ==
  LET joined == allSettled(outcomes)
      all == SettledItems(joined.value)
      scored == [n \in 1..Len(all) |-> scoreItem(all[n], now)]
      recent == SelectSeq(scored, LAMBDA x : WithinWindow(x, sinceHours))
      sorted == SortByScore(recent)
      items == Slice0(sorted, limit * 2)
      clusters == clusterItems(items)
  IN  IF joined.rejected
        THEN [threw |-> TRUE, items |-> <<>>, clusters |-> <<>>,
              window |-> <<>>, allClusters |-> <<>>]
        ELSE [threw |-> FALSE,
              items |-> Slice0(items, limit), clusters |-> Slice0(clusters, limit),
              \* the locals `items` and `clusters`, kept for the properties
              window |-> items, allClusters |-> clusters]

\* --------------------------- Router ---------------------------------

\* Number(s) for the decimal integers the model's requests carry
RECURSIVE ParseDigits(_, _)
ParseDigits(s, acc) ==
  IF s = <<>> THEN acc
  ELSE ParseDigits(Tail(s),
         10 * acc + (CHOOSE d \in 0..9 : DigitChars[d + 1] = Head(s)))

\* NaN, what Number() gives for a string that is no number: a value that
\* Number() gives for no other string of the model
NaN == -999999999

\* the decimal integers, with or without a sign
IsNumeric(s) ==
  /\ s # <<>>
  /\ \A i \in DOMAIN s : s[i] \in Range(DigitChars) \/ (i = 1 /\ s[i] = "-" /\ Len(s) > 1)

ToNumber(s) ==
  IF s = <<>> THEN 0
  ELSE IF ~IsNumeric(s) THEN NaN
  ELSE IF Head(s) = "-" THEN -ParseDigits(Tail(s), 0) ELSE ParseDigits(s, 0)

\* +get(name) || dflt: "0" falls back to the default
NumParam_zeroIsAbsent(raw, dflt) ==
  IF raw # <<>> /\ ToNumber(raw) # 0 THEN ToNumber(raw) ELSE dflt

\* +(url.searchParams.get(name) || dflt); an absent parameter (null) and an
\* empty one are both <<>>
NumParam(raw, dflt) == IF raw # <<>> THEN ToNumber(raw) ELSE dflt

\* The branch of fetch() that serves a GET of `path`: the chain of
\* `if (url.pathname === ...)` statements with their nesting.
Route(path) ==
  IF path = "/api/health" THEN "health"
  ELSE IF path = "/api/sources" THEN "sources"
  ELSE IF path = "/api/feeds" \/ path = "/api/clusters" THEN
    (IF path = "/api/enrich" THEN "enrich"
     ELSE IF path = "/api/clusters/enriched" THEN "clustersEnriched"
     ELSE "feedsOrClusters")
  ELSE IF path = "/api/search" THEN "search"
  ELSE IF path = "/api/topics" THEN "topics"
  ELSE IF path = "/api/live" THEN "live"
  ELSE "fallback"

AggregatingBranches == {"feedsOrClusters", "enrich", "clustersEnriched", "search"}

\* JSON.stringify(obj, null, indent): the text is given by the value and the
\* indentation; only an empty array prints the same under every indentation.
EmptyArray(obj) ==
  \/ (obj.kind = "items" /\ obj.items = <<>>)
  \/ (obj.kind = "clusters" /\ obj.clusters = <<>>)

JsonText(obj, indent) == [json |-> obj, indent |-> IF EmptyArray(obj) THEN 0 ELSE indent]

\* no X-Signature header
NoSignature == [present |-> FALSE]

\* hex(HMAC-SHA-256(env.API_SECRET, payloadStr)), null without a secret
signIfNeeded(env, payloadStr) ==
  IF env.API_SECRET = "" THEN NoSignature
  ELSE [present |-> TRUE, key |-> env.API_SECRET, of |-> payloadStr]

\* text: the body string of the Response; xSignature: extra["X-Signature"]
jsonResponse(obj, status, sig) ==
  [status |-> status, handler |-> obj.kind,
   contentType |-> "application/json; charset=utf-8", body |-> obj,
   text |-> JsonText(obj, 2), xSignature |-> sig]

errorResponse(status) == jsonResponse([kind |-> "error", ok |-> FALSE], status, NoSignature)

\* The responses of the branches that await no aggregation.
ImmediateResponse(env, branch) ==
  IF branch = "fallback"
    THEN [status |-> 200, handler |-> "fallback", contentType |-> "text/plain",
          body |-> [kind |-> "text", text |-> "OK"],
          text |-> [plain |-> "OK"], xSignature |-> NoSignature]
  ELSE IF branch = "health"
    THEN jsonResponse([kind |-> "health", ok |-> TRUE], 200,
                      signIfNeeded(env, JsonText([kind |-> "health", ok |-> TRUE], 0)))
    ELSE jsonResponse([kind |-> branch], 200, NoSignature)

\* `${it.title} ${it.desc} ${it.tags?.join(" ")} ${it.geos?.join(" ")}`.toLowerCase()
haystack(it) ==
  toLower(it.title \o <<" ">> \o it.desc \o <<" ">>
          \o Join([n \in 1..Len(it.tags) |-> TagText[it.tags[n]]], <<" ">>) \o <<" ">>
          \o Join([n \in 1..Len(it.geos) |-> TagText[it.geos[n]]], <<" ">>))

\* q.split(/\s+/): the pieces between the runs of white space, an empty piece
\* before a leading and after a trailing run
SplitSpaces(q) ==
  (IF q = <<>> \/ Head(q) \in SpaceChars THEN << <<>> >> ELSE <<>>)
    \o SplitWords(q, 1, <<>>, <<>>)
    \o (IF q # <<>> /\ q[Len(q)] \in SpaceChars THEN << <<>> >> ELSE <<>>)

\* some token is enough
matches_anyToken(it, q) ==
  \E n \in DOMAIN SplitSpaces(q) : Includes(haystack(it), SplitSpaces(q)[n])

\* q.split(/\s+/).every(tok => hay.includes(tok))
matches(it, q) ==
  \A n \in DOMAIN SplitSpaces(q) : Includes(haystack(it), SplitSpaces(q)[n])

\* c => (c.sources?.length || 0) >= minSources, without the comparison
AtLeastSources_any(c, minSources) == TRUE

\* c => (c.sources?.length || 0) >= minSources
AtLeastSources(c, minSources) == Len(c.sources) >= minSources

\* /api/search once aggregateFeeds has returned `items`
SearchResponse(r, items) ==
  LET q == toLower(r.q)
      limit == NumParam(r.limit, 60)
      res == Slice0(SelectSeq(items, LAMBDA it : matches(it, q)), limit)
  IN  jsonResponse([kind |-> "search", q |-> q, count |-> Len(res), items |-> res],
                   200, NoSignature)

\* new Response(payloadStr, ...) of /api/feeds and /api/clusters
SignedResponse(env, handler, body) ==
  [status |-> 200, handler |-> handler,
   contentType |-> "application/json; charset=utf-8", body |-> body,
   text |-> JsonText(body, 0), xSignature |-> signIfNeeded(env, JsonText(body, 0))]

\* The rest of an aggregating branch once aggregateFeeds has returned `a`.
AggregatedResponse(r, branch, a) ==
  LET minSources == NumParam(r.minSources, 1)
  IN  IF branch = "enrich"
        THEN [jsonResponse([kind |-> "enrich", count |-> Len(a.items), items |-> a.items],
                           200, NoSignature) EXCEPT !.handler = "enrich"]
      ELSE IF branch = "clustersEnriched"
        THEN [jsonResponse([kind |-> "clusters",
                            clusters |-> SelectSeq(clusterItems(a.items),
                                           LAMBDA c : AtLeastSources(c, minSources))],
                           200, NoSignature) EXCEPT !.handler = "clustersEnriched"]
      ELSE IF branch = "search"
        THEN SearchResponse(r, a.items)
      ELSE IF r.path = "/api/clusters"
        THEN SignedResponse(r, "clusters",
               [kind |-> "clusters",
                clusters |-> SelectSeq(a.clusters, LAMBDA c : AtLeastSources(c, minSources))])
        ELSE SignedResponse(r, "feeds", [kind |-> "items", items |-> a.items])

\* Promise.all(ops), awaited: the first rejection is thrown
kvRejects_awaitAll(ops) == \E n \in DOMAIN ops : ops[n].status = "rejected"

\* Promise.allSettled(ops).catch(() => {}), not awaited: no rejection of an
\* operation reaches aggregateFeeds
kvRejects(ops) == FALSE

\* One KV operation of the namespace `kv`: get(key) and, when nothing was
\* stored, the put chained to it; or a put alone.
KvOp(kv, op, key) ==
  [op |-> op, key |-> key,
   status |-> IF kv = "getFails" /\ op = "get" THEN "rejected"
              ELSE IF kv = "putFails" THEN "rejected"
              ELSE "fulfilled"]

\* The KV block of aggregateFeeds over its locals `items` and `clusters`
persistSeen(env, a) ==
  IF env.NEWS_KV = "none" THEN <<>>
  ELSE [n \in 1..Len(a.window) |->
          KvOp(env.NEWS_KV, "get",
               Slice0(IF a.window[n].link # <<>> THEN a.window[n].link ELSE a.window[n].key, 512))]
       \o [n \in 1..Len(a.allClusters) |-> KvOp(env.NEWS_KV, "put", a.allClusters[n].key)]

\* aggregateFeeds with its KV block: `a` is what the aggregation computed
withKv(env, a) ==
  [threw |-> a.threw \/ kvRejects(persistSeen(env, a)),
   items |-> a.items, clusters |-> a.clusters,
   window |-> a.window, allClusters |-> a.allClusters,
   ops |-> persistSeen(env, a)]

\* ----------------------------- State --------------------------------

VARIABLES
  pc,        \* "idle" | "fetching" | "done": where the request in hand stands
  req,       \* the request in hand
  feedRes,   \* per feed, the outcome of fetchFeed
  now,       \* Date.now() when the items were scored
  agg,       \* what aggregateFeeds returned (with its locals)
  resp,      \* the response sent
  stream,    \* one /api/stream connection: controller, timers, events
  enrich,    \* one enrichItems call: its arguments, the KV cache, what it did
  hf,        \* callHfWithFailover: _hfIdx and the call in hand
  retry,     \* one fetchRetry call: its loop and what it met
  seen       \* the NEWS_KV namespace and the KV operations aggregations have pending

vars == <<pc, req, feedRes, now, agg, resp, stream, enrich, hf, retry, seen>>
\* what the request handlers leave alone
others == <<stream, enrich, hf, retry, seen>>

Pending == [status |-> "pending"]
\* size: the number of entries of the document, before fetchFeed's filter
Fulfilled(v, n) == [status |-> "fulfilled", value |-> v, size |-> n]
Rejected(why) == [status |-> "rejected", reason |-> why]
\* fetchRetry exhausted on a non-OK status or on aborts, or the parse threw
FeedFailures == {"http", "timeout", "exception"}

NoReq ==
  [method |-> "", path |-> "", sinceHours |-> <<>>, limit |-> <<>>, minSources |-> <<>>,
   q |-> <<>>, API_SECRET |-> "", NEWS_KV |-> "none"]
NoAgg ==
  [threw |-> FALSE, items |-> <<>>, clusters |-> <<>>, window |-> <<>>, allClusters |-> <<>>,
   ops |-> <<>>]
NoResp ==
  [status |-> 0, handler |-> "", contentType |-> "", body |-> [kind |-> "none"],
   text |-> [plain |-> ""], xSignature |-> NoSignature]

Paths ==
  {"/api/health", "/api/sources", "/api/feeds", "/api/clusters", "/api/enrich",
   "/api/clusters/enriched", "/api/topics", "/api/live", "/"}

NoQuery == [sinceHours |-> ParamAbsent, limit |-> ParamAbsent, minSources |-> ParamAbsent]

\* The query strings tried on each path.
QueriesOf(path) ==
  IF path = "/api/feeds"
    THEN {NoQuery, [NoQuery EXCEPT !.sinceHours = ParamZero],
          [NoQuery EXCEPT !.limit = ParamOne]}
  ELSE IF path = "/api/clusters"
    THEN {NoQuery, [NoQuery EXCEPT !.minSources = ParamTwo]}
  ELSE {NoQuery}

\* A GET of `path` with the query `query`, under an env without secret and KV
Get(path, query) ==
  [method |-> "GET", path |-> path, sinceHours |-> query.sinceHours,
   limit |-> query.limit, minSources |-> query.minSources,
   q |-> <<>>, API_SECRET |-> "", NEWS_KV |-> "none"]

Requests ==
  {Get(pq[1], pq[2]) :
       pq \in {x \in Paths \X UNION {QueriesOf(p) : p \in Paths} : x[2] \in QueriesOf(x[1])}}
  \cup {[Get("/api/feeds", NoQuery) EXCEPT !.method = "OPTIONS"]}

\* Requests with a search query, a signing secret, a KV namespace (which
\* works, or whose gets or puts fail) and a negative parameter.
QueryRequests ==
  { [Get("/api/search", NoQuery) EXCEPT !.q = QueryIranTalks],
    [Get("/api/search", [NoQuery EXCEPT !.limit = ParamOne])
       EXCEPT !.q = QueryChina, !.NEWS_KV = "getFails"],
    [Get("/api/clusters", [NoQuery EXCEPT !.limit = ParamOne, !.minSources = ParamTwo])
       EXCEPT !.API_SECRET = "secret", !.NEWS_KV = "putFails"],
    [Get("/api/feeds", [NoQuery EXCEPT !.sinceHours = ParamMinusOne])
       EXCEPT !.API_SECRET = "secret", !.NEWS_KV = "ok"],
    [Get("/api/health", NoQuery) EXCEPT !.API_SECRET = "secret"],
    [Get("/api/enrich", NoQuery) EXCEPT !.API_SECRET = "secret"],
    [Get("/api/clusters/enriched", NoQuery) EXCEPT !.API_SECRET = "secret"] }

\* Entries already delivered by the feeds that have fulfilled.
RECURSIVE Delivered(_, _)
Delivered(res, fs) ==
  IF fs = {} THEN 0
  ELSE LET f == CHOOSE g \in fs : TRUE
       IN  (IF res[f].status = "fulfilled" THEN res[f].size ELSE 0)
             + Delivered(res, fs \ {f})

\* no /api/stream connection, no enrichItems call, no Hugging Face call
NoStream ==
  [pc |-> "none", ctl |-> "none", events |-> <<>>, interval |-> FALSE,
   closeFired |-> FALSE, inflight |-> 0, started |-> 0, thrown |-> 0,
   sinceHours |-> 0, pushIntervalMs |-> 0, intervalMs |-> <<>>]
NoEnrich ==
  [pc |-> "none", kv |-> FALSE, putRejects |-> FALSE, cache |-> <<>>, calls |-> 0, items |-> <<>>,
   cap |-> 0, up |-> <<>>, out |-> <<>>, log |-> <<>>]
NoHf == [pc |-> "none", tokens |-> <<>>, idx |-> 0, calls |-> <<>>]
\* no fetchRetry call
NoRetry ==
  [pc |-> "none", tries |-> 0, i |-> 0, met |-> <<>>, lastErr |-> [kind |-> "undefined"],
   result |-> [kind |-> "none"]]

\* aggregations reaching their KV block, items of each, Date.now() steps
MaxRuns == 2
RunIds == 1..MaxRuns
MaxSeenItems == 2
MaxSeenClock == 1
\* an empty namespace, no aggregation at its KV block
NoSeen ==
  [store |-> <<>>, clock |-> 0, runs |-> [r \in RunIds |-> <<>>], started |-> 0]

Init ==
  /\ pc = "idle"
  /\ req = NoReq
  /\ feedRes = [f \in FeedIds |-> Pending]
  /\ now = Clock0
  /\ agg = NoAgg
  /\ resp = NoResp
  /\ stream = NoStream
  /\ enrich = NoEnrich
  /\ hf = NoHf
  /\ retry = NoRetry
  /\ seen = NoSeen

\* fetch(): up to the first await
Receive(r) ==
  /\ pc = "idle"
  /\ req' = r
  /\ UNCHANGED <<feedRes, now, agg, others>>
  /\ IF r.method = "OPTIONS"
       THEN /\ pc' = "done"
            /\ resp' = [status |-> 200, handler |-> "preflight", contentType |-> "",
                        body |-> [kind |-> "none"],
                        text |-> [plain |-> ""], xSignature |-> NoSignature]
     ELSE IF Route(r.path) \in AggregatingBranches
       THEN /\ pc' = "fetching"
            /\ resp' = resp
       ELSE /\ pc' = "done"
            /\ resp' = ImmediateResponse(r, Route(r.path))

\* One of the concurrent fetchFeed calls settles.
FeedFulfils(f, doc) ==
  /\ pc = "fetching"
  /\ feedRes[f] = Pending
  /\ Delivered(feedRes, FeedIds) + Len(doc) <= MaxNodes
  /\ feedRes' = [feedRes EXCEPT ![f] = Fulfilled(fetchFeed(FEEDS[f], doc, Clock0), Len(doc))]
  /\ UNCHANGED <<pc, req, now, agg, resp, others>>

FeedRejects(f, why) ==
  /\ pc = "fetching"
  /\ feedRes[f] = Pending
  /\ feedRes' = [feedRes EXCEPT ![f] = Rejected(why)]
  /\ UNCHANGED <<pc, req, now, agg, resp, others>>

\* All feeds have settled: the rest of aggregateFeeds and of the branch,
\* inside the try/catch of fetch().
Respond(delay) ==
  /\ pc = "fetching"
  /\ \A f \in FeedIds : feedRes[f] # Pending
  /\ LET branch == Route(req.path)
         sinceHours == IF branch = "search" THEN NumParam(req.sinceHours, 48)
                       ELSE NumParam(req.sinceHours, DEFAULT_SINCE_HOURS)
         limit == IF branch = "enrich" THEN NumParam(req.limit, 40)
                  ELSE IF branch = "clustersEnriched"
                    THEN 2 * NumParam(req.limit, DEFAULT_LIMIT)
                  ELSE IF branch = "search" THEN 2 * NumParam(req.limit, 60)
                  ELSE NumParam(req.limit, DEFAULT_LIMIT)
         a == withKv(req, aggregateFeeds([f \in 1..Len(FEEDS) |-> feedRes[f]], sinceHours,
                                         limit, Clock0 + delay))
     IN  /\ now' = Clock0 + delay
         /\ agg' = a
         /\ resp' = IF a.threw THEN errorResponse(500)
                    ELSE AggregatedResponse(req, branch, a)
  /\ pc' = "done"
  /\ UNCHANGED <<req, feedRes, others>>

\* The worker turns to the next request.
NextRequest ==
  /\ pc = "done"
  /\ pc' = "idle"
  /\ req' = NoReq
  /\ feedRes' = [f \in FeedIds |-> Pending]
  /\ now' = Clock0
  /\ agg' = NoAgg
  /\ resp' = NoResp
  /\ UNCHANGED others

Next ==
  \/ \E r \in Requests : Receive(r)
  \/ \E f \in FeedIds, doc \in Docs : FeedFulfils(f, doc)
  \/ \E f \in FeedIds, why \in FeedFailures : FeedRejects(f, why)
  \/ \E delay \in {0, ScoreDelay} : Respond(delay)
  \/ NextRequest

Spec == Init /\ [][Next]_vars

\* The same handlers under the requests of QueryRequests.
NextQueries ==
  \/ \E r \in QueryRequests : Receive(r)
  \/ \E f \in FeedIds, doc \in Docs : FeedFulfils(f, doc)
  \/ \E f \in FeedIds, why \in FeedFailures : FeedRejects(f, why)
  \/ \E delay \in {0, ScoreDelay} : Respond(delay)
  \/ NextRequest

SpecQueries == Init /\ [][NextQueries]_vars

\* Entries the two feed documents of a /api/clusters request hold in total
\* when the documents are delivered together.
MaxClusterNodes == 4

\* The pool entries those documents are made of: four different stories.
ClusterPool == <<1, 3, 6, 7>>

ClusterDocs ==
  {[i \in DOMAIN s |-> NodePool[ClusterPool[s[i]]]] :
     s \in {t \in UNION {[1..k -> DOMAIN ClusterPool] : k \in 0..Len(ClusterPool)} :
              \A i, j \in DOMAIN t : i < j => t[i] < t[j]}}

ClusterRequests ==
  {Get("/api/clusters", [NoQuery EXCEPT !.limit = l, !.minSources = ms]) :
     l \in {ParamOne, ParamTwo}, ms \in {ParamAbsent, ParamTwo}}

\* Both fetchFeed calls fulfil.
FeedsFulfil(docs) ==
  /\ pc = "fetching"
  /\ \A f \in FeedIds : feedRes[f] = Pending
  /\ Len(docs[1]) + Len(docs[2]) <= MaxClusterNodes
  /\ feedRes' = [f \in FeedIds |->
                   Fulfilled(fetchFeed(FEEDS[f], docs[f], Clock0), Len(docs[f]))]
  /\ UNCHANGED <<pc, req, now, agg, resp, others>>

\* /api/clusters over documents of up to MaxClusterNodes entries.
NextClusters ==
  \/ \E r \in ClusterRequests : Receive(r)
  \/ \E docs \in ClusterDocs \X ClusterDocs : FeedsFulfil(docs)
  \/ \E delay \in {0, ScoreDelay} : Respond(delay)
  \/ NextRequest

SpecClusters == Init /\ [][NextClusters]_vars

\* Documents made of the entries of MergePool, listed in any order.
MergeDocs ==
  {[i \in DOMAIN s |-> MergePool[s[i]]] :
     s \in {t \in UNION {[1..k -> DOMAIN MergePool] : k \in 0..3} :
              \A i, j \in DOMAIN t : i # j => t[i] # t[j]}}

\* /api/clusters over those documents.
NextMerge ==
  \/ Receive(Get("/api/clusters", NoQuery))
  \/ \E docs \in MergeDocs \X MergeDocs : FeedsFulfil(docs)
  \/ \E delay \in {0, ScoreDelay} : Respond(delay)
  \/ NextRequest

SpecMerge == Init /\ [][NextMerge]_vars

\* --------------------------- SSE Stream ------------------------------

\* bound: interval callbacks started on one connection
MaxTicks == 3

\* What the feeds deliver to an aggregation run by the stream.
StreamDocs == {<<>>, <<NodePool[1]>>, <<NodePool[1], NodePool[3]>>}
StreamOutcomes ==
  {[f \in 1..Len(FEEDS) |->
      IF f = 1 THEN Fulfilled(fetchFeed(FEEDS[f], d, Clock0), Len(d))
      ELSE Rejected("http")] : d \in StreamDocs}

\* Math.min(Math.max(2500, +(intervalMs || 4000)), 15000)
\* Math.max(2500, NaN) and Math.min(NaN, 15000) are NaN
pushIntervalMs(raw) ==
  IF NumParam(raw, 4000) = NaN THEN NaN
  ELSE Min(Max(2500, NumParam(raw, 4000)), 15000)

\* send without the controller's check
send_unchecked(s, type, n) ==
  [threw |-> FALSE,
   stream |-> [s EXCEPT !.events = Append(@, [type |-> type, n |-> n])]]

\* send(type, data): controller.enqueue throws a TypeError unless the stream
\* is readable and no close was requested
send(s, type, n) ==
  IF s.ctl = "open"
    THEN [threw |-> FALSE,
          stream |-> [s EXCEPT !.events = Append(@, [type |-> type, n |-> n])]]
    ELSE [threw |-> TRUE, stream |-> s]

\* try { send(type, ...) } catch (e) { send("error", ...) } around an
\* aggregation `a`; threw: the catch block threw as well
sendOrError(s, a, type, n) ==
  LET first == IF a.threw THEN [threw |-> TRUE, stream |-> s] ELSE send(s, type, n)
      second == IF first.threw THEN send(s, "error", 0) ELSE first
  IN  IF second.threw THEN [threw |-> TRUE, stream |-> [s EXCEPT !.thrown = @ + 1]]
      ELSE second

\* start() once its aggregation `a` has settled
afterBurst(s, a) ==
  LET r == sendOrError(s, a, "init", Len(a.items))
  IN  IF r.threw THEN [r.stream EXCEPT !.pc = "failed"]
      ELSE [r.stream EXCEPT !.pc = "running", !.interval = TRUE]

\* the interval callback, its catch block ending the connection
afterTick_closeOnError(s, a) ==
  LET r == sendOrError(s, a, "tick", Len(Slice0(a.items, 8)))
  IN  IF a.threw THEN [r.stream EXCEPT !.inflight = @ - 1, !.interval = FALSE, !.ctl = "closed"]
      ELSE [r.stream EXCEPT !.inflight = @ - 1]

\* the interval callback once its aggregation `a` has settled
afterTick(s, a) ==
  LET r == sendOrError(s, a, "tick", Len(Slice0(a.items, 8)))
  IN  [r.stream EXCEPT !.inflight = @ - 1]

\* handleStream: the response is returned while start() awaits the
\* initial aggregation
Connect(sinceRaw, intervalRaw) ==
  /\ stream.pc = "none"
  /\ stream' = [NoStream EXCEPT !.pc = "burst", !.ctl = "open",
                                !.sinceHours = NumParam(sinceRaw, 6),
                                !.pushIntervalMs = pushIntervalMs(intervalRaw),
                                !.intervalMs = intervalRaw]
  /\ UNCHANGED <<pc, req, feedRes, now, agg, resp, enrich, hf, retry, seen>>

\* start(): the initial burst, then setInterval and setTimeout; when both
\* sends throw, start() rejects before any timer is set
BurstSettles(outcomes) ==
  /\ stream.pc = "burst"
  /\ stream' = afterBurst(stream, aggregateFeeds(outcomes, stream.sinceHours, 40, Clock0))
  /\ UNCHANGED <<pc, req, feedRes, now, agg, resp, enrich, hf, retry, seen>>

\* setInterval placed before the initial burst
TickStarts_beforeBurst ==
  /\ stream.pc \in {"burst", "running"}
  /\ ~stream.closeFired
  /\ stream.started < MaxTicks
  /\ stream' = [stream EXCEPT !.started = @ + 1, !.inflight = @ + 1]
  /\ UNCHANGED <<pc, req, feedRes, now, agg, resp, enrich, hf, retry, seen>>

\* the interval fires: the callback runs up to its await
TickStarts ==
  /\ stream.pc = "running"
  /\ stream.interval
  /\ stream.started < MaxTicks
  /\ stream' = [stream EXCEPT !.started = @ + 1, !.inflight = @ + 1]
  /\ UNCHANGED <<pc, req, feedRes, now, agg, resp, enrich, hf, retry, seen>>

\* the aggregation of one interval callback settles
TickSettles(outcomes) ==
  /\ stream.inflight > 0
  /\ stream' = afterTick(stream, aggregateFeeds(outcomes, 2, 20, Clock0))
  /\ UNCHANGED <<pc, req, feedRes, now, agg, resp, enrich, hf, retry, seen>>

\* the timeout callback without its clearInterval
CloseTimerFires_noClear ==
  /\ stream.pc = "running"
  /\ ~stream.closeFired
  /\ stream' = [stream EXCEPT !.closeFired = TRUE,
                              !.ctl = IF @ = "open" THEN "closed" ELSE @]
  /\ UNCHANGED <<pc, req, feedRes, now, agg, resp, enrich, hf, retry, seen>>

\* setTimeout(() => { clearInterval(timer); controller.close(); }, 90000);
\* close() throws on a stream that is no longer readable
CloseTimerFires ==
  /\ stream.pc = "running"
  /\ ~stream.closeFired
  /\ stream' = [stream EXCEPT !.interval = FALSE, !.closeFired = TRUE,
                              !.ctl = IF @ = "open" THEN "closed" ELSE @]
  /\ UNCHANGED <<pc, req, feedRes, now, agg, resp, enrich, hf, retry, seen>>

\* The client disconnects: the stream is cancelled. The underlying source
\* has no cancel() method.
ClientCancels ==
  /\ stream.pc \in {"burst", "running"}
  /\ stream.ctl = "open"
  /\ stream' = [stream EXCEPT !.ctl = "cancelled"]
  /\ UNCHANGED <<pc, req, feedRes, now, agg, resp, enrich, hf, retry, seen>>

StreamParams == {ParamAbsent, ParamZero, ParamTwo}
\* intervalMs: absent, zero, negative, very large, not a number
IntervalParams == {ParamAbsent, ParamZero, ParamMinusOne, ParamHuge, ParamAbc}

NextStream ==
  \/ \E s \in StreamParams, i \in IntervalParams : Connect(s, i)
  \/ \E o \in StreamOutcomes : BurstSettles(o)
  \/ TickStarts
  \/ \E o \in StreamOutcomes : TickSettles(o)
  \/ CloseTimerFires
  \/ ClientCancels

SpecStream == Init /\ [][NextStream]_vars

\* `await aggregateFeeds(env, 2, 20)` rejects. No statement of aggregateFeeds
\* throws on the feeds' outcomes, so NextStream has no such step; this is the
\* input of the interval callback's catch block.
Thrown ==
  [threw |-> TRUE, items |-> <<>>, clusters |-> <<>>, window |-> <<>>, allClusters |-> <<>>]

\* the aggregation of one interval callback throws
TickThrows ==
  /\ stream.inflight > 0
  /\ stream' = afterTick(stream, Thrown)
  /\ UNCHANGED <<pc, req, feedRes, now, agg, resp, enrich, hf, retry, seen>>

\* The stream with tick aggregations that may throw.
NextStreamFaults ==
  \/ \E s \in StreamParams, i \in {ParamAbsent} : Connect(s, i)
  \/ \E o \in StreamOutcomes : BurstSettles(o)
  \/ TickStarts
  \/ \E o \in StreamOutcomes : TickSettles(o)
  \/ TickThrows
  \/ CloseTimerFires
  \/ ClientCancels

SpecStreamFaults == Init /\ [][NextStreamFaults]_vars

\* the initial aggregation settles (fetchRetry bounds every fetch) and the
\* 90 s timeout fires
FairSpecStream ==
  /\ SpecStream
  /\ WF_vars(\E o \in StreamOutcomes : BurstSettles(o))
  /\ WF_vars(CloseTimerFires)

\* --------------------------- Enrichment ------------------------------

MAX_HF_ENRICH == 25
\* bound: enrichItems calls made against one deployment
MaxEnrichCalls == 2

\* Array.prototype.slice(start)
SliceFrom(s, start) ==
  SubSeq(s, (IF start < 0 THEN Max(Len(s) + start, 0) ELSE Min(start, Len(s))) + 1, Len(s))

\* An upstream answer: status 200 with a body, an HTTP error status, or 0
\* when the AbortController fired first.
Ok(body) == [status |-> 200, body |-> body]
Fails(status) == [status |-> status, body |-> <<>>]
HfTimeout == Fails(0)

\* hfPOST: the parsed body, or a throw on !r.ok and on the abort
hfPOST(answer) ==
  IF answer.status >= 200 /\ answer.status <= 299
    THEN [threw |-> FALSE, value |-> answer.body, status |-> answer.status]
    ELSE [threw |-> TRUE, value |-> <<>>, status |-> answer.status]

ZS_LABELS == [i \in 1..Len(TOPICS) |-> TOPICS[i].tag]

\* topLabel(zsOut, thresh).map(x => x.label); scores and thresh in hundredths
topLabel(zsOut, thresh) ==
  IF ~(zsOut.kind = "object" /\ Len(zsOut.labels) = Len(zsOut.scores)) THEN <<>>
  ELSE LET pairs == [i \in 1..Len(zsOut.labels) |->
                       [label |-> zsOut.labels[i], score |-> zsOut.scores[i]]]
           kept == SelectSeq(pairs, LAMBDA x : x.score >= thresh)
           top == Slice0(kept, 5)
       IN  [i \in 1..Len(top) |-> top[i].label]

\* parseLang: the label of the highest score, "en" when there is none
parseLang(det) ==
  IF det.kind # "array" \/ det.items = <<>> THEN "en"
  ELSE LET best == SortByScore(det.items)[1].label
       IN  IF best # "" THEN best ELSE "en"

\* tr[0].translation_text / sm[0].summary_text, or the string itself
textOf(out, dflt) ==
  IF out.kind = "array" /\ out.items # <<>> /\ out.items[1].text # <<>> THEN out.items[1].text
  ELSE IF out.kind = "string" THEN out.text
  ELSE dflt

\* crypto.subtle.digest("SHA-256", ...) in base64url: one value per input
Sha256Base64Url(s) == [sha256 |-> s]

\* async function digestBase64Url: the caller gets a Promise
digestBase64Url(s) == [kind |-> "promise", value |-> Sha256Base64Url(s)]

\* `${prefix}:${digestBase64Url(id).slice(0,44)}`: slice is a method of
\* strings, a Promise has none and the call throws a TypeError
kvKey(prefix, id) ==
  LET d == digestBase64Url(id)
  IN  IF d.kind = "string" THEN [threw |-> FALSE, value |-> <<prefix, d.value>>]
      ELSE [threw |-> TRUE, value |-> <<>>]

\* it.link || it.key || it.title
itemId(it) ==
  IF it.link # <<>> THEN it.link ELSE IF it.key # <<>> THEN it.key ELSE it.title

\* The tasks of enrichItem for one item over the upstream answers `up`.
enrichTasks(it, up) ==
  LET text == Slice0(it.title \o <<".", " ">> \o it.desc, 3500)
      det == hfPOST(up.lang)
      lang == IF det.threw THEN "en" ELSE parseLang(det.value)
      tr == hfPOST(up.translate)
      normalized == IF lang # "en" /\ ~tr.threw THEN textOf(tr.value, text) ELSE text
      zs == hfPOST(up.zeroshot)
      zsTop == IF zs.threw THEN <<>> ELSE topLabel(zs.value, 35)
      sm == hfPOST(up.summarize)
      summary == IF sm.threw THEN <<>> ELSE textOf(sm.value, <<>>)
      s == hfPOST(up.sentiment)
      e == hfPOST(up.ner)
  IN  [calls |-> <<"lang">> \o (IF lang # "en" THEN <<"translate">> ELSE <<>>)
                   \o <<"zeroshot", "summarize", "sentiment", "ner">>,
       enrich |-> [lang |-> lang,
                   translated |-> lang # "en",
                   normalizedText |-> Slice0(normalized, 2000),
                   summary |-> summary,
                   zsLabels |-> zsTop,
                   sentiment |-> IF s.threw THEN [kind |-> "null"] ELSE s.value,
                   entities |-> IF ~e.threw /\ e.value.kind = "array" THEN e.value.items ELSE <<>>,
                   tags |-> Distinct(it.tags \o zsTop, <<>>)]]

\* enrichItem(env, it): env.kv is whether NEWS_KV is bound, env.putRejects
\* whether the namespace refuses writes (the awaited put rejects), env.cache what
\* the namespace holds
enrichItem(env, it, up) ==
  LET K == kvKey("enrich", itemId(it))
      t == enrichTasks(it, up)
  IN  IF K.threw
        THEN [threw |-> TRUE, value |-> it, calls |-> <<>>, kvOps |-> <<>>,
              cache |-> env.cache]
      ELSE IF env.kv /\ K.value \in DOMAIN env.cache
        THEN [threw |-> FALSE,
              value |-> [enriched |-> TRUE] @@ env.cache[K.value] @@ it,
              calls |-> <<>>, kvOps |-> <<"get">>, cache |-> env.cache]
      ELSE IF env.kv /\ env.putRejects
        THEN [threw |-> TRUE, value |-> it, calls |-> t.calls,
              kvOps |-> <<"get", "put">>, cache |-> env.cache]
      ELSE [threw |-> FALSE,
            value |-> [enriched |-> TRUE] @@ t.enrich @@ it,
            calls |-> t.calls,
            kvOps |-> IF env.kv THEN <<"get", "put">> ELSE <<>>,
            cache |-> IF env.kv THEN (K.value :> t.enrich) @@ env.cache ELSE env.cache]

\* a catch that pushes the item stripped of its tags
enrichStep_untagged(acc, it, r) ==
  [out |-> Append(acc.out, IF r.threw THEN [it EXCEPT !.tags = <<>>] ELSE r.value),
   cache |-> r.cache,
   log |-> Append(acc.log, [id |-> itemId(it), calls |-> r.calls, kvOps |-> r.kvOps])]

\* try { enriched.push(await enrichItem(env, it)); } catch { enriched.push(it); }
\* with r what enrichItem did
enrichStep(acc, it, r) ==
  [out |-> Append(acc.out, IF r.threw THEN it ELSE r.value),
   cache |-> r.cache,
   log |-> Append(acc.log, [id |-> itemId(it), calls |-> r.calls, kvOps |-> r.kvOps])]

\* for (const it of head) ...
RECURSIVE enrichHead(_, _, _, _)
enrichHead(env, head, up, acc) ==
  IF head = <<>> THEN acc
  ELSE enrichHead(env, Tail(head), up,
         enrichStep(acc, Head(head),
                    enrichItem([env EXCEPT !.cache = acc.cache], Head(head), up)))

\* items.slice(cap + 1)
ItemsRest_offByOne(items, cap) == SliceFrom(items, cap + 1)

\* const rest = items.slice(cap);
ItemsRest(items, cap) == SliceFrom(items, cap)

\* enrichItems(env, items, cap): what it returns, the cache it leaves, and
\* per item handed to enrichItem the upstream calls and KV operations made
enrichItems(env, items, cap, up) ==
  LET done == enrichHead(env, Slice0(items, cap), up,
                         [out |-> <<>>, cache |-> env.cache, log |-> <<>>])
  IN  [out |-> done.out \o ItemsRest(items, cap), cache |-> done.cache, log |-> done.log]

\* Upstream answers of the six Hugging Face tasks.
LangEn == Ok([kind |-> "array", items |-> <<[label |-> "en", score |-> 99], [label |-> "fr", score |-> 1]>>])
LangFr == Ok([kind |-> "array", items |-> <<[label |-> "en", score |-> 2], [label |-> "fr", score |-> 97]>>])
Translation == Ok([kind |-> "array", items |-> <<[text |-> <<"t", "r">>]>>])
ZeroShot == Ok([kind |-> "object", labels |-> <<"Cyber", "Iran", "DPRK">>, scores |-> <<90, 40, 10>>])
Summary == Ok([kind |-> "string", text |-> <<"s", "u", "m">>])
Sentiment == Ok([kind |-> "array", items |-> <<[label |-> "neutral", score |-> 80]>>])
Ner == Ok([kind |-> "array", items |-> <<[word |-> "Iran", score |-> 99]>>])

AllOk ==
  [lang |-> LangEn, translate |-> Translation, zeroshot |-> ZeroShot,
   summarize |-> Summary, sentiment |-> Sentiment, ner |-> Ner]
AllFail == [t \in DOMAIN AllOk |-> Fails(500)]

Upstreams ==
  {AllOk, AllFail,
   [AllOk EXCEPT !.lang = LangFr],
   [AllOk EXCEPT !.zeroshot = HfTimeout, !.ner = Fails(500)],
   [AllOk EXCEPT !.lang = Fails(401)],
   [AllOk EXCEPT !.summarize = Fails(403)]}

\* Scored items as aggregateFeeds hands them to enrichItems.
EnrichPool ==
  LET its == fetchFeed(FEEDS[1], <<NodePool[1], NodePool[3], NodePool[6]>>, Clock0)
  IN  [i \in 1..Len(its) |-> scoreItem(its[i], Clock0)]
EnrichLists ==
  LET idx == {s \in UNION {[1..k -> DOMAIN EnrichPool] : k \in 0..Len(EnrichPool)} :
                 \A i, j \in DOMAIN s : i < j => s[i] < s[j]}
  IN  {[i \in DOMAIN s |-> EnrichPool[s[i]]] : s \in idx}
Caps == {-1, 0, 1, 2, MAX_HF_ENRICH}

\* The worker is deployed with or without the NEWS_KV binding; a bound
\* namespace stores what it is given or rejects every put.
Deploy(kv, putRejects) ==
  /\ enrich.pc = "none"
  /\ kv \/ ~putRejects
  /\ enrich' = [enrich EXCEPT !.pc = "ready", !.kv = kv, !.putRejects = putRejects]
  /\ UNCHANGED <<pc, req, feedRes, now, agg, resp, stream, hf, retry, seen>>

\* One call of enrichItems, from its first statement to its return.
EnrichItemsCall(items, cap, up) ==
  /\ enrich.pc \in {"ready", "returned"}
  /\ enrich.calls < MaxEnrichCalls
  /\ LET r == enrichItems([kv |-> enrich.kv, putRejects |-> enrich.putRejects,
                           cache |-> enrich.cache], items, cap, up)
     IN  enrich' = [enrich EXCEPT !.pc = "returned", !.calls = @ + 1,
                                  !.items = items, !.cap = cap, !.up = up,
                                  !.out = r.out, !.log = r.log, !.cache = r.cache]
  /\ UNCHANGED <<pc, req, feedRes, now, agg, resp, stream, hf, retry, seen>>

NextEnrich ==
  \/ \E kv, putRejects \in BOOLEAN : Deploy(kv, putRejects)
  \/ \E items \in EnrichLists, cap \in Caps, up \in Upstreams : EnrichItemsCall(items, cap, up)

SpecEnrich == Init /\ [][NextEnrich]_vars

\* ------------- Hugging Face token rotation + failover ----------------

\* bound: callHfWithFailover calls made against one deployment
MaxHfCalls == 2
HfCallIds == 1..MaxHfCalls

\* callHfWithFailover({ ..., maxAttempts = 4, ... })
maxAttempts == 4

\* Deduplication of [...new Set(list)]: first occurrences, in order.
\* JSON.parse(env.HF_TOKENS_JSON): json.valid is whether it parses,
\* json.isArray whether it is an array; an unset variable is the empty text.
tokensFromEnv(env) ==
  LET fromJson == IF env.HF_TOKENS_JSON.set /\ env.HF_TOKENS_JSON.valid
                       /\ env.HF_TOKENS_JSON.isArray
                    THEN SelectSeq(env.HF_TOKENS_JSON.items, LAMBDA t : t # "")
                    ELSE <<>>
      a == IF env.HF_TOKEN_A # "" THEN <<env.HF_TOKEN_A>> ELSE <<>>
      b == IF env.HF_TOKEN_B # "" THEN <<env.HF_TOKEN_B>> ELSE <<>>
  IN  Distinct(fromJson \o a \o b, <<>>)

\* a rotation that never advances
nextToken_stuck(tokens, idx) ==
  [token |-> tokens[(idx % Len(tokens)) + 1], idx |-> idx]

\* nextToken(tokens) over _hfIdx = idx, for a non-empty pool
nextToken(tokens, idx) ==
  [token |-> tokens[(idx % Len(tokens)) + 1], idx |-> (idx + 1) % Len(tokens)]

NoJson == [set |-> FALSE, valid |-> FALSE, isArray |-> FALSE, items |-> <<>>]
Json(items) == [set |-> TRUE, valid |-> TRUE, isArray |-> TRUE, items |-> items]
HfEnvs ==
  {[HF_TOKENS_JSON |-> NoJson, HF_TOKEN_A |-> "", HF_TOKEN_B |-> ""],
   [HF_TOKENS_JSON |-> NoJson, HF_TOKEN_A |-> "hf_A", HF_TOKEN_B |-> "hf_B"],
   [HF_TOKENS_JSON |-> Json(<<"hf_A", "", "hf_B">>), HF_TOKEN_A |-> "hf_A", HF_TOKEN_B |-> ""],
   [HF_TOKENS_JSON |-> [NoJson EXCEPT !.set = TRUE], HF_TOKEN_A |-> "hf_A", HF_TOKEN_B |-> ""]}

\* What one fetch brings: an HTTP status, or 0 when fetch itself throws.
HfAnswers == {200, 401, 403, 429, 503, 0}
\* The answers tried on each call: all of them on the first one.
HfAnswersOf(c) == IF c = 1 THEN HfAnswers ELSE {200, 401, 429}

\* the page of a gated model: 801 characters
GatedPage == [i \in 1..801 |-> IF i = 801 THEN "!" ELSE "g"]

\* The text of the upstream response with each status: r.text(). The
\* gated-model page of a 403 is longer than the 800 characters kept.
BodyOf(ans) ==
  IF ans = 401 THEN <<"b", "a", "d", " ", "t", "o", "k", "e", "n">>
  ELSE IF ans = 403 THEN GatedPage
  ELSE IF ans = 429 THEN <<"r", "a", "t", "e">>
  ELSE IF ans = 503 THEN <<"l", "o", "a", "d", "i", "n", "g">>
  ELSE <<"o", "k">>

\* let lastErrTxt = "unknown"
UnknownErr == <<"u", "n", "k", "n", "o", "w", "n">>
\* e?.message of the TypeError fetch throws
NetworkErr == <<"f", "e", "t", "c", "h", " ", "f", "a", "i", "l", "e", "d">>

NoHfCall ==
  [pc |-> "idle", attempt |-> 0, used |-> <<>>, answers |-> <<>>, startIdx |-> 0,
   alone |-> TRUE, status |-> 0, error |-> "", detail |-> <<>>, lastErrTxt |-> UnknownErr]

\* 401 and 403 taken for retryable statuses
afterFetch_retryAuth(call, ans) ==
  IF ans = 0
    THEN [call EXCEPT !.pc = "backoff", !.lastErrTxt = NetworkErr]
  ELSE IF ans = 401 \/ ans = 403 \/ ans = 429 \/ (ans >= 500 /\ ans <= 599)
    THEN [call EXCEPT !.pc = "backoff", !.lastErrTxt = BodyOf(ans)]
  ELSE [call EXCEPT !.pc = "done", !.status = ans]

\* The attempt in hand once its fetch has settled with `ans`: the 401/403
\* return, the retry branch up to its backoff, the success passthrough, or
\* the catch.
afterFetch(call, ans) ==
  IF ans = 0
    THEN [call EXCEPT !.pc = "backoff", !.lastErrTxt = NetworkErr]
  ELSE IF ans = 401 \/ ans = 403
    THEN [call EXCEPT !.pc = "done", !.status = ans, !.error = "HF auth/gated model",
                      !.detail = Slice0(BodyOf(ans), 800)]
  ELSE IF ans = 429 \/ (ans >= 500 /\ ans <= 599)
    THEN [call EXCEPT !.pc = "backoff", !.lastErrTxt = BodyOf(ans)]
  ELSE [call EXCEPT !.pc = "done", !.status = ans]

InFlight(c) == hf.calls[c].pc \in {"fetching", "backoff"}

\* The worker is deployed with its secrets.
HfDeploy(env) ==
  /\ hf.pc = "none"
  /\ hf' = [pc |-> "deployed", tokens |-> tokensFromEnv(env), idx |-> 0,
            calls |-> [c \in HfCallIds |-> NoHfCall]]
  /\ UNCHANGED <<pc, req, feedRes, now, agg, resp, stream, enrich, retry, seen>>

\* callHfWithFailover up to its first await: the 500 for an empty pool, or
\* attempt 0 with its nextToken and fetch
HfCall(c) ==
  /\ hf.pc = "deployed"
  /\ hf.calls[c].pc = "idle"
  /\ \A b \in HfCallIds : b < c => hf.calls[b].pc # "idle"
  /\ IF hf.tokens = <<>>
       THEN hf' = [hf EXCEPT !.calls[c].pc = "done", !.calls[c].status = 500,
                             !.calls[c].error = "HF tokens not configured"]
       ELSE LET t == nextToken(hf.tokens, hf.idx)
                busy == {b \in HfCallIds : InFlight(b)}
            IN  hf' = [hf EXCEPT
                  !.idx = t.idx,
                  !.calls = [b \in HfCallIds |->
                     IF b = c
                       THEN [NoHfCall EXCEPT !.pc = "fetching", !.used = <<t.token>>,
                                             !.startIdx = hf.idx, !.alone = busy = {}]
                     ELSE IF b \in busy THEN [hf.calls[b] EXCEPT !.alone = FALSE]
                     ELSE hf.calls[b]]]
  /\ UNCHANGED <<pc, req, feedRes, now, agg, resp, stream, enrich, retry, seen>>

\* the fetch of the attempt in hand settles
HfAnswer(c, ans) ==
  /\ hf.pc = "deployed"
  /\ hf.calls[c].pc = "fetching"
  /\ hf' = [hf EXCEPT !.calls[c] =
              afterFetch([hf.calls[c] EXCEPT !.answers = Append(@, ans)], ans)]
  /\ UNCHANGED <<pc, req, feedRes, now, agg, resp, stream, enrich, retry, seen>>

\* a loop bound of attempt <= maxAttempts
HfBackoffEnds_oneMore(c) ==
  /\ hf.pc = "deployed"
  /\ hf.calls[c].pc = "backoff"
  /\ IF hf.calls[c].attempt + 1 <= maxAttempts
       THEN LET t == nextToken(hf.tokens, hf.idx)
            IN  hf' = [hf EXCEPT !.idx = t.idx,
                                 !.calls[c].pc = "fetching",
                                 !.calls[c].attempt = @ + 1,
                                 !.calls[c].used = Append(@, t.token)]
       ELSE hf' = [hf EXCEPT !.calls[c].pc = "done", !.calls[c].status = 502,
                             !.calls[c].attempt = @ + 1,
                             !.calls[c].error = "HF call failed after retries",
                             !.calls[c].detail = hf.calls[c].lastErrTxt]
  /\ UNCHANGED <<pc, req, feedRes, now, agg, resp, stream, enrich, retry, seen>>

\* the backoff timer fires: `continue`, then the next attempt with its
\* nextToken and fetch, or the 502 after the loop
HfBackoffEnds(c) ==
  /\ hf.pc = "deployed"
  /\ hf.calls[c].pc = "backoff"
  /\ IF hf.calls[c].attempt + 1 < maxAttempts
       THEN LET t == nextToken(hf.tokens, hf.idx)
            IN  hf' = [hf EXCEPT !.idx = t.idx,
                                 !.calls[c].pc = "fetching",
                                 !.calls[c].attempt = @ + 1,
                                 !.calls[c].used = Append(@, t.token)]
       ELSE hf' = [hf EXCEPT !.calls[c].pc = "done", !.calls[c].status = 502,
                             !.calls[c].attempt = @ + 1,
                             !.calls[c].error = "HF call failed after retries",
                             !.calls[c].detail = hf.calls[c].lastErrTxt]
  /\ UNCHANGED <<pc, req, feedRes, now, agg, resp, stream, enrich, retry, seen>>

NextFailover ==
  \/ \E env \in HfEnvs : HfDeploy(env)
  \/ \E c \in HfCallIds : HfCall(c)
  \/ \E c \in HfCallIds : \E ans \in HfAnswersOf(c) : HfAnswer(c, ans)
  \/ \E c \in HfCallIds : HfBackoffEnds(c)

SpecFailover == Init /\ [][NextFailover]_vars

\* ------------------------ fetchRetry ---------------------------------

\* What one fetch of fetchRetry meets: an HTTP status, 0 for a network
\* error, -1 for the abort of the 8 s timeout.
RetryOutcomes == {200, 404, 500, 0, -1}

\* the Error kept in lastErr for an attempt that did not return
ErrorOf(o) ==
  IF o = 0 THEN [kind |-> "TypeError"]
  ELSE IF o = -1 THEN [kind |-> "abort", reason |-> "timeout"]
  ELSE [kind |-> "Error", status |-> o]

\* r.ok
IsOk(o) == o \in 200..299

\* a lastErr that keeps the first error
afterAttempt_firstErr(r, o) ==
  IF IsOk(o)
    THEN [r EXCEPT !.pc = "returned", !.met = Append(@, o),
                   !.result = [kind |-> "response", status |-> o]]
    ELSE [r EXCEPT !.pc = "backoff", !.met = Append(@, o),
                   !.lastErr = IF @ = [kind |-> "undefined"] THEN ErrorOf(o) ELSE @]

\* the body of the loop once fetch has settled with `o`: `return r`, or
\* lastErr and the wait before the next turn
afterAttempt(r, o) ==
  IF IsOk(o)
    THEN [r EXCEPT !.pc = "returned", !.met = Append(@, o),
                   !.result = [kind |-> "response", status |-> o]]
    ELSE [r EXCEPT !.pc = "backoff", !.met = Append(@, o), !.lastErr = ErrorOf(o)]

\* fetchRetry(url, init, tries): fetchFeed calls it with the default of 3
\* tries, getFearGreed with 2. Runs to the first fetch.
RetryCall(tries) ==
  /\ retry.pc = "none"
  /\ retry' = [NoRetry EXCEPT !.pc = IF 0 < tries THEN "fetching" ELSE "threw",
                               !.tries = tries]
  /\ UNCHANGED <<pc, req, feedRes, now, agg, resp, stream, enrich, hf, seen>>

\* the fetch of turn i settles
RetryAttempt(o) ==
  /\ retry.pc = "fetching"
  /\ retry' = afterAttempt(retry, o)
  /\ UNCHANGED <<pc, req, feedRes, now, agg, resp, stream, enrich, hf, seen>>

\* the wait of 300 * (i + 1) ms + jitter ends: i++, the next fetch or
\* `throw lastErr`
RetryBackoffEnds ==
  /\ retry.pc = "backoff"
  /\ retry' = IF retry.i + 1 < retry.tries
                THEN [retry EXCEPT !.pc = "fetching", !.i = @ + 1]
                ELSE [retry EXCEPT !.pc = "threw", !.i = @ + 1,
                                   !.result = [kind |-> "thrown", error |-> retry.lastErr]]
  /\ UNCHANGED <<pc, req, feedRes, now, agg, resp, stream, enrich, hf, seen>>

NextRetry ==
  \/ \E tries \in {2, 3} : RetryCall(tries)
  \/ \E o \in RetryOutcomes : RetryAttempt(o)
  \/ RetryBackoffEnds

SpecRetry == Init /\ [][NextRetry]_vars

\* ------------------- First-seen memory in NEWS_KV --------------------

\* `item:${(it.link || it.key).slice(0,512)}`
itemKey(it) == <<"item", Slice0(IF it.link # <<>> THEN it.link ELSE it.key, 512)>>
\* `cluster:${c.key}`
clusterKey(c) == <<"cluster", c.key>>

\* The operations the KV block issues, in order: per item a get with its
\* then-callback, per cluster a put.
seenOps(items, clusters) ==
  [n \in 1..Len(items) |-> [op |-> "get", key |-> itemKey(items[n]), value |-> <<>>]]
  \o [n \in 1..Len(clusters) |->
        [op |-> "put", key |-> clusterKey(clusters[n]),
         value |-> [lastSeenTs |-> clusters[n].lastSeenTs]]]

\* prev => { if (!prev) return env.NEWS_KV.put(key, {firstSeenTs: Date.now(), ...}) }
\* with prev what the get brought ("null" when the key is absent) and t = Date.now()
getThen(op, prev, t) ==
  IF prev = "null" THEN [op EXCEPT !.op = "put", !.value = [firstSeenTs |-> t]]
  ELSE [op EXCEPT !.op = "done"]

\* env.NEWS_KV.get(key) on the namespace as it stands
kvGet(store, key) == IF key \in DOMAIN store THEN "set" ELSE "null"

\* Scored items of an aggregation, at most MaxSeenItems of them.
SeenLists == {its \in EnrichLists : Len(its) <= MaxSeenItems}

\* An aggregation (a request, an SSE tick or the scheduled warm-up) reaches
\* its KV block: every operation is issued, none is awaited.
KvBlock(r, items) ==
  /\ r = seen.started + 1
  /\ seen' = [seen EXCEPT !.started = r,
                           !.runs[r] = seenOps(items, clusterItems(items))]
  /\ UNCHANGED <<pc, req, feedRes, now, agg, resp, stream, enrich, hf, retry>>

\* a get settles and its then-callback runs
KvGetSettles(r, n) ==
  /\ n \in DOMAIN seen.runs[r]
  /\ seen.runs[r][n].op = "get"
  /\ seen' = [seen EXCEPT !.runs[r][n] =
                 getThen(@, kvGet(seen.store, @.key), seen.clock)]
  /\ UNCHANGED <<pc, req, feedRes, now, agg, resp, stream, enrich, hf, retry>>

\* a put reaches the namespace
KvPutSettles(r, n) ==
  /\ n \in DOMAIN seen.runs[r]
  /\ seen.runs[r][n].op = "put"
  /\ seen' = [seen EXCEPT !.store = (seen.runs[r][n].key :> seen.runs[r][n].value) @@ @,
                           !.runs[r][n].op = "done"]
  /\ UNCHANGED <<pc, req, feedRes, now, agg, resp, stream, enrich, hf, retry>>

\* Date.now() advances
TimePasses ==
  /\ seen.clock < MaxSeenClock
  /\ seen' = [seen EXCEPT !.clock = @ + 1]
  /\ UNCHANGED <<pc, req, feedRes, now, agg, resp, stream, enrich, hf, retry>>

NextSeen ==
  \/ \E r \in RunIds, items \in SeenLists : KvBlock(r, items)
  \/ \E r \in RunIds, n \in 1..(2 * MaxSeenItems) : KvGetSettles(r, n)
  \/ \E r \in RunIds, n \in 1..(2 * MaxSeenItems) : KvPutSettles(r, n)
  \/ TimePasses

SpecSeen == Init /\ [][NextSeen]_vars

\* --------------------------- Properties -----------------------------

\* A request served by the feeds/clusters branch has been answered.
Aggregated == pc = "done" /\ resp.handler \in {"feeds", "clusters"}

\* The item `it` is one of the items of cluster c.
InCluster(it, c) == \E k \in DOMAIN c.items : c.items[k] = it

SameCluster(a, b) ==
  \E n \in DOMAIN agg.allClusters :
     InCluster(a, agg.allClusters[n]) /\ InCluster(b, agg.allClusters[n])

\* C1: every cluster clusterItems returns lists as sources exactly the
\* distinct src values of its items, each once; its firstSeenTs is not
\* later than its lastSeenTs; and it holds at least one item.
C1_ClusterInvariants ==
  \A n \in DOMAIN agg.allClusters :
    LET c == agg.allClusters[n]
    IN  /\ Range(c.sources) = {c.items[k].src : k \in DOMAIN c.items}
        /\ Cardinality(Range(c.sources)) = Len(c.sources)
        /\ c.firstSeenTs <= c.lastSeenTs
        /\ Len(c.items) >= 1

\* A cluster of several items, two of them of one source, seen at different times.
C1_Witness ==
  /\ Aggregated
  /\ \E n \in DOMAIN agg.allClusters :
       LET c == agg.allClusters[n]
       IN  /\ Len(c.items) = 3
           /\ Len(c.sources) = 2
           /\ c.firstSeenTs < c.lastSeenTs

\* C2 as stated: any two items of the clusterer's input with an equal
\* storyKey are in the same cluster, whatever the key; and an input whose
\* items all share one storyKey gives exactly one cluster.
C2_EqualKeySameCluster ==
  Aggregated =>
    /\ \A i, j \in DOMAIN agg.window :
         agg.window[i].key = agg.window[j].key
           => SameCluster(agg.window[i], agg.window[j])
    /\ (agg.window # <<>> /\ \A i \in DOMAIN agg.window : agg.window[i].key = agg.window[1].key)
         => Len(agg.allClusters) = 1

\* C2 amended: any two items of the clusterer's input with an equal and
\* non-empty storyKey are in the same cluster; an input whose items all
\* share one non-empty storyKey gives exactly one cluster.
C2_EqualNonEmptyKeySameCluster ==
  Aggregated =>
    /\ \A i, j \in DOMAIN agg.window :
         (agg.window[i].key = agg.window[j].key /\ agg.window[i].key # <<>>)
           => SameCluster(agg.window[i], agg.window[j])
    /\ (/\ agg.window # <<>>
        /\ agg.window[1].key # <<>>
        /\ \A i \in DOMAIN agg.window : agg.window[i].key = agg.window[1].key)
         => Len(agg.allClusters) = 1

\* Two items with one non-empty key, different titles and different links
\* have been clustered.
C2_Witness ==
  /\ Aggregated
  /\ \E i, j \in DOMAIN agg.window :
       /\ agg.window[i].key = agg.window[j].key
       /\ agg.window[i].key # <<>>
       /\ agg.window[i].title # agg.window[j].title
       /\ agg.window[i].link # agg.window[j].link

\* The clusterer's input is the two satellite headlines, one per source.
SatellitePair ==
  /\ Aggregated
  /\ Len(agg.window) = 2
  /\ {agg.window[1].title, agg.window[2].title} = {TitleChinaSat, TitleBeijingSat}
  /\ agg.window[1].src # agg.window[2].src

\* C3 as stated: the two satellite headlines of two sources end up in one
\* cluster that holds both items and has two sources.
C3_SatelliteOneCluster ==
  SatellitePair =>
    /\ Len(agg.allClusters) = 1
    /\ Len(agg.allClusters[1].items) = 2
    /\ Len(agg.allClusters[1].sources) = 2

\* C3 amended: the two satellite headlines of two sources (token sets with
\* Jaccard similarity 3/7 and different story keys) end up in two
\* clusters of one item and one source each.
C3_SatelliteTwoClusters ==
  SatellitePair =>
    /\ Len(agg.allClusters) = 2
    /\ \A n \in DOMAIN agg.allClusters :
         Len(agg.allClusters[n].items) = 1 /\ Len(agg.allClusters[n].sources) = 1

C3_Witness == SatellitePair /\ Len(agg.allClusters) = 2

\* The keys of the buckets of the clusterer's input.
WindowKeys == {BucketKey(agg.window[i]) : i \in DOMAIN agg.window}

\* The title of the first item of the bucket of key k.
FirstTitle(k) ==
  agg.window[CHOOSE i \in DOMAIN agg.window :
               /\ BucketKey(agg.window[i]) = k
               /\ \A j \in 1..(i - 1) : BucketKey(agg.window[j]) # k].title

TokenSet(title) == Range(tokenize(title))

\* C4: an input of exactly two buckets gives one cluster when the token
\* sets of the buckets' first titles have Jaccard similarity >= 3/5
\* (3/5 itself included) and two clusters when it is below.
C4_TwoBucketsThreshold ==
  (Aggregated /\ Cardinality(WindowKeys) = 2) =>
    LET k1 == CHOOSE k \in WindowKeys : TRUE
        k2 == CHOOSE k \in WindowKeys : k # k1
        A == TokenSet(FirstTitle(k1))
        B == TokenSet(FirstTitle(k2))
    IN  IF 5 * Cardinality(A \cap B) >= 3 * Cardinality(A \cup B)
          THEN Len(agg.allClusters) = 1
          ELSE Len(agg.allClusters) = 2

\* Two buckets whose first titles have a similarity of exactly 3/5, merged.
C4_Witness ==
  /\ Aggregated
  /\ Cardinality(WindowKeys) = 2
  /\ LET k1 == CHOOSE k \in WindowKeys : TRUE
         k2 == CHOOSE k \in WindowKeys : k # k1
         A == TokenSet(FirstTitle(k1))
         B == TokenSet(FirstTitle(k2))
     IN  5 * Cardinality(A \cap B) = 3 * Cardinality(A \cup B)
  /\ Len(agg.allClusters) = 1

\* C5: every item aggregateFeeds returns has a score in [0, 1].
C5_ScoreInUnitInterval ==
  \A i \in DOMAIN agg.items : 0 <= agg.items[i].score /\ agg.items[i].score <= 1000

\* C6: every item aggregateFeeds(sinceHours, limit) returns has
\* ageH <= sinceHours; an item published 40 hours ago is not returned when
\* sinceHours = 24.
C6_AgeWithinWindow ==
  Aggregated =>
    \A i \in DOMAIN agg.items :
      /\ 10 * agg.items[i].ageH <= 1000 * NumParam(req.sinceHours, DEFAULT_SINCE_HOURS)
      /\ NumParam(req.sinceHours, DEFAULT_SINCE_HOURS) = 24
           => now - agg.items[i].ts # 40000

\* A feed delivered an item published 40 hours ago, the window is 24 hours,
\* and the answer holds other items but not that one.
C6_Witness ==
  /\ Aggregated
  /\ req.sinceHours = ParamAbsent
  /\ \E f \in FeedIds :
       /\ feedRes[f].status = "fulfilled"
       /\ \E k \in DOMAIN feedRes[f].value : now - feedRes[f].value[k].ts = 40000
  /\ agg.items # <<>>
  /\ \A i \in DOMAIN agg.items : now - agg.items[i].ts # 40000

C8_ClusterOrder ==
  \A i, j \in DOMAIN agg.allClusters :
    LET a == agg.allClusters[i]
        b == agg.allClusters[j]
    IN  /\ i < j =>
             \/ Len(a.sources) > Len(b.sources)
             \/ Len(a.sources) = Len(b.sources) /\ a.score >= b.score
        /\ (Range(b.sources) \subseteq Range(a.sources)
              /\ Range(b.sources) # Range(a.sources)) => i < j

\* A cluster of two sources precedes a cluster of one of them although the
\* latter holds the better-scored item (and so was built first).
C8_Witness ==
  /\ Aggregated
  /\ \E i, j \in DOMAIN agg.allClusters :
       LET a == agg.allClusters[i]
           b == agg.allClusters[j]
       IN  /\ i < j
           /\ Range(b.sources) \subseteq Range(a.sources)
           /\ Range(b.sources) # Range(a.sources)
           /\ \E k \in DOMAIN b.items : \A l \in DOMAIN a.items :
                b.items[k].score > a.items[l].score

\* The entries of the fulfilled feeds that fall in the window of the request.
InWindowEntries ==
  {it \in UNION {Range(feedRes[f].value) :
                   f \in {g \in FeedIds : feedRes[g].status = "fulfilled"}} :
     scoreItem(it, now).ageH <= 100 * NumParam(req.sinceHours, DEFAULT_SINCE_HOURS)}

\* C9: whatever feeds fail, aggregateFeeds completes and the request is
\* answered 200; the items returned are items of feeds that succeeded, and
\* all of those in the window as far as the limit allows; when every feed
\* fails or is empty both lists are empty.
C9_FailedFeedsAreSkipped ==
  (pc = "done" /\ Route(req.path) \in AggregatingBranches /\ req.method = "GET") =>
    /\ ~agg.threw
    /\ resp.status = 200
    /\ \A i \in DOMAIN agg.items :
         \E f \in FeedIds :
           /\ feedRes[f].status = "fulfilled"
           /\ FEEDS[f].src = agg.items[i].src
           /\ \E k \in DOMAIN feedRes[f].value :
                /\ feedRes[f].value[k].title = agg.items[i].title
                /\ feedRes[f].value[k].link = agg.items[i].link
    /\ Len(agg.items) =
         Min(Cardinality(InWindowEntries), NumParam(req.limit, DEFAULT_LIMIT))
    /\ (\A f \in FeedIds : feedRes[f].status = "rejected" \/ feedRes[f].value = <<>>)
         => agg.items = <<>> /\ agg.clusters = <<>>

\* One feed failed, the other delivered, and its items are in the answer.
C9_Witness ==
  /\ Aggregated
  /\ resp.status = 200
  /\ \E f \in FeedIds : feedRes[f].status = "rejected"
  /\ Len(agg.items) = 2

\* C10: a GET of /api/enrich is served by the enrichment branch and
\* answers { count, items }; a GET of /api/clusters/enriched is served by
\* its own branch.
C10_EnrichRoutesReachable ==
  (pc = "done" /\ req.method = "GET") =>
    /\ req.path = "/api/enrich"
         => resp.handler = "enrich" /\ resp.body.kind = "enrich"
    /\ req.path = "/api/clusters/enriched" => resp.handler = "clustersEnriched"

\* C11: on an /api/stream connection an init event is the first event and
\* the only init; no tick comes before it; every later event is a tick or
\* an error; once start() has set its timers exactly one init has been
\* emitted. The only connections without an init are those the client left
\* before the initial aggregation settled, and they carry no event at all.
C11_InitFirst ==
  LET ev == stream.events
  IN  /\ \A i \in DOMAIN ev : (ev[i].type = "init") <=> (i = 1)
      /\ \A i \in DOMAIN ev : i > 1 => ev[i].type \in {"tick", "error"}
      /\ stream.pc = "running" =>
           Cardinality({i \in DOMAIN ev : ev[i].type = "init"}) = 1
      /\ stream.pc = "failed" => (ev = <<>> /\ stream.ctl = "cancelled")

\* An init followed by two ticks, on a stream the server has closed.
C11_Witness ==
  /\ Len(stream.events) = 3
  /\ stream.events[1].type = "init"
  /\ stream.events[3].type = "tick"
  /\ stream.closeFired

\* C12: every /api/stream connection is eventually closed and left without
\* an interval timer; once start() has set the timers the close timer
\* eventually fires; when it has fired the controller is no longer open,
\* the interval is cleared and no tick aggregation is started any more.
C12_ServerCloses ==
  /\ (stream.pc = "burst") ~> (stream.ctl # "open" /\ ~stream.interval)
  /\ (stream.pc = "running") ~> stream.closeFired
  /\ [](stream.closeFired => (stream.ctl # "open" /\ ~stream.interval))
  /\ [][stream.closeFired => stream'.started = stream.started]_vars

\* The close timer fired on an open stream that had started ticks, one of
\* them still in flight.
C12_Witness ==
  /\ stream.closeFired
  /\ stream.ctl = "closed"
  /\ stream.started = 2
  /\ stream.inflight = 1

\* C13: once the client has disconnected, no further aggregateFeeds call is
\* started for that connection.
C13_CancelStopsTicks ==
  [][stream.ctl = "cancelled" => stream'.started = stream.started]_vars

\* C14: after the close timer has closed the stream, no event is enqueued
\* on its controller, even by a tick whose aggregation was in flight.
C14_NoEventAfterClose ==
  [][stream.closeFired => stream'.events = stream.events]_vars

\* A tick that was in flight when the server closed the stream has
\* settled: its sends threw and the events are those of before the close.
C14_Witness ==
  /\ stream.closeFired
  /\ stream.ctl = "closed"
  /\ stream.thrown = 1
  /\ stream.inflight = 0
  /\ stream.started = 2
  /\ Len(stream.events) = 2

\* an enrichItems call has returned
EnrichReturned == enrich.pc = "returned"

\* C15: for every item passed through enrichItems, the tags of the returned
\* item include every tag of the input item, whatever the upstream answers.
C15_TagsSuperset ==
  EnrichReturned =>
    \A i \in DOMAIN enrich.items :
       /\ i \in DOMAIN enrich.out
       /\ Range(enrich.items[i].tags) \subseteq Range(enrich.out[i].tags)

\* A tagged item within the cap went through enrichItems against an
\* upstream that answers every task, zero-shot labels included.
C15_Witness ==
  /\ EnrichReturned
  /\ enrich.kv
  /\ enrich.up = AllOk
  /\ enrich.log # <<>>
  /\ enrich.items[1].tags # <<>>

\* C16: with the KV cache configured, once an item has gone through
\* enrichment it is returned enriched and the cache holds its entry under
\* "enrich:" followed by the SHA-256 of link || key || title, so that a
\* repeat is served from the cache.
C16_CacheServesRepeat ==
  (EnrichReturned /\ enrich.kv) =>
    \A j \in DOMAIN enrich.log :
       /\ <<"enrich", Sha256Base64Url(enrich.log[j].id)>> \in DOMAIN enrich.cache
       /\ "enriched" \in DOMAIN enrich.out[j]

\* C17: enrichItems returns as many items as it was given, in the same
\* order; the items at positions >= cap are returned unchanged; only the
\* items within the cap are handed to enrichItem, one after the other in
\* input order, so that the others cause no upstream call and no cache
\* access.
C17_CapPassThrough ==
  EnrichReturned =>
    /\ Len(enrich.out) = Len(enrich.items)
    /\ \A i \in DOMAIN enrich.items :
          /\ enrich.out[i].link = enrich.items[i].link
          /\ enrich.out[i].title = enrich.items[i].title
          /\ (i - 1 >= enrich.cap => enrich.out[i] = enrich.items[i])
    /\ enrich.cap >= 0 => Len(enrich.log) = Min(enrich.cap, Len(enrich.items))
    /\ \A j \in DOMAIN enrich.log : enrich.log[j].id = itemId(enrich.items[j])

\* Three items with a cap of one.
C17_Witness ==
  /\ EnrichReturned
  /\ Len(enrich.items) = 3
  /\ enrich.cap = 1
  /\ Len(enrich.log) = 1
  /\ enrich.up = AllOk

\* C18: whatever subset of the upstream tasks fails, every item within the
\* cap is returned enriched: the field of a failed task holds its default
\* and the field of a task that answered holds the answer.
C18_FailedTaskKeepsDefault ==
  EnrichReturned =>
    \A j \in DOMAIN enrich.log :
       LET o == enrich.out[j]
           up == enrich.up
       IN  /\ "enriched" \in DOMAIN o
           /\ hfPOST(up.lang).threw => o.lang = "en"
           /\ hfPOST(up.summarize).threw <=> o.summary = <<>>
           /\ hfPOST(up.zeroshot).threw <=> o.zsLabels = <<>>
           /\ hfPOST(up.sentiment).threw <=> o.sentiment = [kind |-> "null"]
           /\ hfPOST(up.ner).threw <=> o.entities = <<>>

\* the tasks of enrichItem in call order, for an item detected as English
TaskOrder == <<"lang", "zeroshot", "summarize", "sentiment", "ner">>
AuthRejected(up) == {n \in DOMAIN TaskOrder : up[TaskOrder[n]].status \in {401, 403}}

C20_TwoTokensThirdAttempt ==
  \A c \in DOMAIN hf.calls :
    LET call == hf.calls[c]
    IN  (/\ call.pc = "done"
         /\ call.alone
         /\ Len(hf.tokens) = 2
         /\ call.answers = <<429, 429, 200>>) =>
           /\ Len(call.used) = 3
           /\ call.status = 200
           /\ \A k \in 1..3 : call.used[k] = hf.tokens[((call.startIdx + k - 1) % 2) + 1]
           /\ call.used[1] # call.used[2]
           /\ call.used[3] = call.used[1]

\* The first call of a deployment with the pool <<hf_A, hf_B>> met 429,
\* 429, 200 without another call in flight.
C20_Witness ==
  /\ hf.pc = "deployed"
  /\ hf.tokens = <<"hf_A", "hf_B">>
  /\ hf.calls[1].pc = "done"
  /\ hf.calls[1].alone
  /\ hf.calls[1].answers = <<429, 429, 200>>
  /\ hf.calls[1].used = <<"hf_A", "hf_B", "hf_A">>
  /\ hf.calls[2].pc = "idle"

\* statuses and failures after which the loop goes on
HfRetryable == {0, 429} \cup (500..599)

\* C21: a call whose attempt receives 401 or 403 returns at once with that
\* status and the upstream text as its detail (its first 800 characters);
\* that attempt is its last: no token is taken after it.
C21_AuthFailsFast ==
  \A c \in DOMAIN hf.calls :
    LET call == hf.calls[c]
    IN  \A k \in DOMAIN call.answers :
          call.answers[k] \in {401, 403} =>
            /\ call.pc = "done"
            /\ call.status = call.answers[k]
            /\ call.detail = SubSeq(BodyOf(call.answers[k]), 1,
                                    Min(800, Len(BodyOf(call.answers[k]))))
            /\ k = Len(call.answers)
            /\ Len(call.used) = k

\* A second attempt of a pool of two met a 403 after a 429, while the
\* other call was still in flight.
C21_Witness ==
  /\ hf.pc = "deployed"
  /\ Len(hf.tokens) = 2
  /\ hf.calls[1].answers = <<429, 403>>
  /\ hf.calls[1].status = 403
  /\ Len(hf.calls[1].detail) = 800
  /\ hf.calls[2].pc = "fetching"

\* C22: a call makes at most four upstream attempts; an attempt after the
\* first is made only when every earlier one met a 429, a 5xx or a network
\* error; and after four such failures the call ends in the 502 failure
\* response with no fifth attempt.
C22_AtMostFourAttempts ==
  \A c \in DOMAIN hf.calls :
    LET call == hf.calls[c]
    IN  /\ Len(call.used) <= 4
        /\ Len(call.answers) <= Len(call.used)
        /\ \A k \in DOMAIN call.used :
              k > 1 => call.answers[k - 1] \in HfRetryable
        /\ (Len(call.answers) = 4 /\ call.answers[4] \in HfRetryable) =>
              /\ call.pc \in {"backoff", "done"}
              /\ call.pc = "done" => (call.status = 502 /\ Len(call.used) = 4)

\* Four failures of three kinds, answered by the 502.
C22_Witness ==
  /\ hf.pc = "deployed"
  /\ hf.calls[1].pc = "done"
  /\ hf.calls[1].answers = <<429, 503, 0, 429>>
  /\ hf.calls[1].status = 502
  /\ Len(hf.calls[1].used) = 4

\* C23: fetchRetry makes at most 3 fetches for a feed (at most `tries`);
\* it returns the first OK response and fetches no more; when every
\* attempt fails it throws the error of the last attempt.
C23_RetryAtMostThree ==
  /\ Len(retry.met) <= retry.tries
  /\ retry.tries <= 3
  /\ \A k \in DOMAIN retry.met : IsOk(retry.met[k]) => k = Len(retry.met)
  /\ (retry.met # <<>> /\ IsOk(retry.met[Len(retry.met)])) =>
        /\ retry.pc = "returned"
        /\ retry.result = [kind |-> "response", status |-> retry.met[Len(retry.met)]]
  /\ retry.pc = "threw" =>
        /\ Len(retry.met) = retry.tries
        /\ \A k \in DOMAIN retry.met : ~IsOk(retry.met[k])
        /\ retry.result = [kind |-> "thrown", error |-> ErrorOf(retry.met[Len(retry.met)])]

\* Three failed attempts of three kinds: the error thrown is the last one.
C23_Witness ==
  /\ retry.pc = "threw"
  /\ retry.tries = 3
  /\ retry.met = <<500, -1, 404>>
  /\ retry.result.error = [kind |-> "Error", status |-> 404]

\* /api/search has answered the request in hand
SearchAnswered == pc = "done" /\ req.method = "GET" /\ req.path = "/api/search"

\* C24 (as stated): /api/search returns exactly the items of the aggregation
\* window that contain every token of the lowercased query, in aggregation
\* order, truncated to limit.
C24_SearchWholeWindow ==
  SearchAnswered =>
    resp.body.items =
      Slice0(SelectSeq(agg.window, LAMBDA it : matches(it, toLower(req.q))),
             NumParam(req.limit, 60))

\* C24 (amended): /api/search looks at the first 2 * limit items of the
\* aggregation only: it returns exactly those of them whose haystack contains
\* every whitespace-separated token of the lowercased query, in aggregation
\* order and truncated to limit; an item missing a token is never returned.
C24_SearchFirstTwiceLimit ==
  SearchAnswered =>
    LET q == toLower(req.q)
        toks == SplitWords(q, 1, <<>>, <<>>)
        has(it) == \A n \in DOMAIN toks : Includes(haystack(it), toks[n])
        head == SubSeq(agg.window, 1, Min(Len(agg.window), 2 * NumParam(req.limit, 60)))
        hits == SelectSeq(head, has)
    IN  /\ resp.status = 200
        /\ resp.body.items = SubSeq(hits, 1, Min(Len(hits), NumParam(req.limit, 60)))
        /\ resp.body.count = Len(resp.body.items)
        /\ \A n \in DOMAIN resp.body.items : has(resp.body.items[n])

\* A two-token search answered over items of which one holds both tokens
\* and another only one of them.
C24_Witness ==
  /\ SearchAnswered
  /\ req.q = QueryIranTalks
  /\ Len(resp.body.items) = 1
  /\ \E n \in DOMAIN agg.items :
       /\ Includes(haystack(agg.items[n]), <<"i","r","a","n">>)
       /\ ~Includes(haystack(agg.items[n]), <<"t","a","l","k","s">>)

\* /api/clusters has answered the request in hand
ClustersAnswered == pc = "done" /\ req.method = "GET" /\ req.path = "/api/clusters"

\* C25: every cluster /api/clusters returns has at least minSources distinct
\* sources, and the response is the first `limit` clusters of the ordered
\* cluster list restricted to the clusters with that many sources: filtering
\* after the truncation loses no qualifying cluster.
C25_MinSourcesAfterLimit ==
  ClustersAnswered =>
    LET minSources == NumParam(req.minSources, 1)
        limit == NumParam(req.limit, DEFAULT_LIMIT)
        enough(c) == Cardinality(Range(c.sources)) >= minSources
        qualifying == SelectSeq(agg.allClusters, enough)
    IN  /\ resp.body.clusters = SubSeq(qualifying, 1, Min(Len(qualifying), limit))
        /\ \A n \in DOMAIN resp.body.clusters : enough(resp.body.clusters[n])

\* limit = 2 and minSources = 2 over three clusters: the first, with two
\* sources, is returned; of the others, with one source each, one was cut
\* off by the limit and one by the filter.
C25_Witness ==
  /\ ClustersAnswered
  /\ req.limit = ParamTwo /\ req.minSources = ParamTwo
  /\ Len(agg.allClusters) = 3
  /\ Len(agg.clusters) = 2
  /\ Len(agg.allClusters[2].sources) = 1
  /\ Len(resp.body.clusters) = 1

\* the paths whose responses are to be signed
SignedPaths ==
  {"/api/health", "/api/feeds", "/api/clusters", "/api/enrich", "/api/clusters/enriched"}

\* C26: with API_SECRET configured, every response of /api/health,
\* /api/feeds, /api/clusters, /api/enrich and /api/clusters/enriched carries
\* an X-Signature that is the HMAC of exactly the body string of that response.
C26_SignatureOfBodySent ==
  (pc = "done" /\ req.method = "GET" /\ req.API_SECRET # "" /\ req.path \in SignedPaths) =>
    /\ resp.xSignature.present
    /\ resp.xSignature.key = req.API_SECRET
    /\ resp.xSignature.of = resp.text

\* C27: a request carrying an invalid query parameter (here a negative
\* sinceHours, limit or minSources) is answered with a 4xx status and the
\* body { ok: false, error }.
C27_InvalidParamIsClientError ==
  (/\ pc = "done"
   /\ req.method = "GET"
   /\ \E raw \in {req.sinceHours, req.limit, req.minSources} :
        raw # <<>> /\ ToNumber(raw) < 0) =>
    /\ resp.status \in 400..499
    /\ resp.body.kind = "error"
    /\ resp.body.ok = FALSE

\* what aggregateFeeds computes for the request in hand from the settled
\* feeds alone, without a KV namespace
AggregationOfFeeds ==
  aggregateFeeds([f \in 1..Len(FEEDS) |-> feedRes[f]],
                 NumParam(req.sinceHours, IF req.path = "/api/search" THEN 48 ELSE 24),
                 IF req.path = "/api/search" THEN 2 * NumParam(req.limit, 60)
                 ELSE NumParam(req.limit, 80),
                 now)

\* C28: a KV operation started by aggregateFeeds that fails changes neither
\* the items and clusters aggregateFeeds returns nor the outcome of the
\* request, which is answered 200.
C28_KvFailureHarmless ==
  (/\ pc = "done"
   /\ req.path \in {"/api/feeds", "/api/clusters", "/api/search"}
   /\ \E n \in DOMAIN agg.ops : agg.ops[n].status = "rejected") =>
    /\ ~agg.threw
    /\ resp.status = 200
    /\ agg.items = AggregationOfFeeds.items
    /\ agg.clusters = AggregationOfFeeds.clusters

\* A request answered with items although a get and a put of its
\* aggregation were rejected.
C28_Witness ==
  /\ pc = "done"
  /\ req.NEWS_KV = "putFails"
  /\ \E n \in DOMAIN agg.ops : agg.ops[n].op = "get" /\ agg.ops[n].status = "rejected"
  /\ \E n \in DOMAIN agg.ops : agg.ops[n].op = "put" /\ agg.ops[n].status = "rejected"
  /\ agg.items # <<>>
  /\ resp.status = 200

\* C29: whatever the intervalMs parameter of /api/stream is (absent, zero,
\* negative, very large, not a number), the interval of the tick timer lies
\* in [2500, 15000] ms, and it is 4000 ms when the parameter is absent.
C29_IntervalClamped ==
  stream.pc # "none" =>
    /\ stream.pushIntervalMs \in 2500..15000
    /\ (stream.intervalMs = ParamAbsent => stream.pushIntervalMs = 4000)

\* an error event followed by a tick event
TickAfterError ==
  \E i, j \in DOMAIN stream.events :
    i < j /\ stream.events[i].type = "error" /\ stream.events[j].type = "tick"

\* C30: when the aggregation of a tick throws on an open stream, an error
\* event is emitted and nothing else changes: the stream stays open and its
\* interval timer armed, so that later firings start aggregations and emit
\* ticks; only the close timer ends the interval while the stream is open.
C30_ErrorKeepsStreamOpen ==
  /\ [][(TickThrows /\ stream.ctl = "open") =>
          /\ stream'.events = Append(stream.events, [type |-> "error", n |-> 0])
          /\ stream'.ctl = "open"
          /\ stream'.interval = stream.interval
          /\ stream'.pc = stream.pc
          /\ stream'.closeFired = stream.closeFired]_vars
  /\ []((stream.pc = "running" /\ ~stream.closeFired) => stream.interval)
  /\ []((stream.pc = "running" /\ stream.interval /\ stream.started < MaxTicks)
          => ENABLED TickStarts)

\* An open stream, not yet closed by the server, that has emitted an error
\* for a tick whose aggregation threw and a tick after it.
C30_Witness ==
  /\ stream.ctl = "open"
  /\ stream.interval
  /\ ~stream.closeFired
  /\ TickAfterError

\* C31: of two clusters clusterItems returns with as many sources and the
\* same score, the one with the more recent lastSeenTs comes first.
C31_TieBrokenByLastSeen ==
  \A i, j \in DOMAIN agg.allClusters :
    (/\ i < j
     /\ Len(agg.allClusters[i].sources) = Len(agg.allClusters[j].sources)
     /\ agg.allClusters[i].score = agg.allClusters[j].score)
      => agg.allClusters[i].lastSeenTs >= agg.allClusters[j].lastSeenTs

\* The buckets of the window clusterItems was given, in insertion order, and
\* where each ended.
KeyOrder == BucketKeys(agg.window, <<>>)
SixTenths(k1, k2) ==
  LET q == jaccard(tokenize(FirstTitle(k1)), tokenize(FirstTitle(k2)))
  IN  5 * q.num >= 3 * q.den
ClusterOf(k) ==
  CHOOSE n \in DOMAIN agg.allClusters :
    \E i \in DOMAIN agg.allClusters[n].items : BucketKey(agg.allClusters[n].items[i]) = k
IsSeed(k) == \E n \in DOMAIN agg.allClusters : agg.allClusters[n].key = k
Clustered == ClustersAnswered /\ ~agg.threw

\* C32 (as stated): any two buckets whose first titles have Jaccard
\* similarity of at least 0.6 end in the same cluster.
C32_SimilarBucketsShareCluster ==
  Clustered =>
    \A i, j \in DOMAIN KeyOrder :
      (i < j /\ SixTenths(KeyOrder[i], KeyOrder[j]))
        => ClusterOf(KeyOrder[i]) = ClusterOf(KeyOrder[j])

\* C32 (amended): a bucket joins the cluster of the first seed before it whose
\* first title has Jaccard similarity of at least 0.6 with its own, and is a
\* seed itself when no seed before it is that close.
C32_JoinsFirstSimilarSeed ==
  Clustered =>
    \A j \in DOMAIN KeyOrder :
      LET near == {i \in 1..(j - 1) : /\ IsSeed(KeyOrder[i])
                                       /\ SixTenths(KeyOrder[i], KeyOrder[j])}
      IN  IF near = {} THEN IsSeed(KeyOrder[j])
          ELSE /\ ~IsSeed(KeyOrder[j])
               /\ \E i \in near :
                    /\ \A h \in near : i <= h
                    /\ ClusterOf(KeyOrder[j]) = ClusterOf(KeyOrder[i])

\* Three buckets: the second is close to the first and joined it, the third
\* is close to the second only and stayed apart.
C32_Witness ==
  /\ Clustered
  /\ Len(KeyOrder) = 3
  /\ SixTenths(KeyOrder[1], KeyOrder[2])
  /\ SixTenths(KeyOrder[2], KeyOrder[3])
  /\ ~SixTenths(KeyOrder[1], KeyOrder[3])
  /\ ClusterOf(KeyOrder[1]) = ClusterOf(KeyOrder[2])
  /\ ClusterOf(KeyOrder[3]) # ClusterOf(KeyOrder[1])

\* C35: every item of the window is in exactly one cluster, the clusters
\* hold nothing else, and together they hold as many items as the window.
C35_ClustersPartitionItems ==
  Clustered =>
    /\ \A x \in Range(agg.window) :
         Cardinality({<<n, i>> \in (DOMAIN agg.allClusters) \X (1..Len(agg.window)) :
                        /\ i \in DOMAIN agg.allClusters[n].items
                        /\ agg.allClusters[n].items[i] = x}) = 1
    /\ \A n \in DOMAIN agg.allClusters :
         /\ agg.allClusters[n].items # <<>>
         /\ Range(agg.allClusters[n].items) \subseteq Range(agg.window)
    /\ Len(FlatMap([n \in DOMAIN agg.allClusters |-> agg.allClusters[n].items]))
         = Len(agg.window)

\* Two feeds carried the same story and a third entry merged into it; another
\* story stands alone.
C35_Witness ==
  /\ Clustered
  /\ Len(agg.window) = 4
  /\ Len(agg.allClusters) = 2
  /\ \E n \in DOMAIN agg.allClusters : Len(agg.allClusters[n].items) = 3

\* C36: the first titles of two seed buckets have Jaccard similarity below
\* 0.6, and every bucket merged into a cluster has similarity of at least 0.6
\* with that cluster's seed; two merged buckets need not be that close.
C36_SeedsApartMergedNearSeed ==
  Clustered =>
    /\ \A a, b \in DOMAIN agg.allClusters :
         a # b => ~SixTenths(agg.allClusters[a].key, agg.allClusters[b].key)
    /\ \A k \in Range(KeyOrder) :
         \/ IsSeed(k)
         \/ SixTenths(agg.allClusters[ClusterOf(k)].key, k)

\* One cluster of a seed and two merged buckets that are not close to each
\* other.
C36_Witness ==
  /\ Clustered
  /\ Len(KeyOrder) = 3
  /\ Len(agg.allClusters) = 1
  /\ \E i, j \in DOMAIN KeyOrder :
       /\ ~IsSeed(KeyOrder[i]) /\ ~IsSeed(KeyOrder[j])
       /\ ~SixTenths(KeyOrder[i], KeyOrder[j])

\* C33: every scored item has ageH >= 0; an item dated after the current
\* time gets ageH = 0.
C33_AgeNeverNegative ==
  (pc = "done" /\ ~agg.threw) =>
    \A i \in DOMAIN agg.items :
      /\ agg.items[i].ageH >= 0
      /\ agg.items[i].ts > now => agg.items[i].ageH = 0

C37_ConsecutiveAttemptsRotate ==
  (hf.pc = "deployed" /\ Len(hf.tokens) >= 2) =>
    \A c \in HfCallIds :
      \A k \in 1..(Len(hf.calls[c].used) - 1) :
        hf.calls[c].used[k] # hf.calls[c].used[k + 1]

\* C39: an enrichment in which every upstream task failed is not written to
\* the cache: the next enrichItem for the same item reads the cache, finds
\* nothing and calls the upstream tasks again.
C39_FailedPassNotCached ==
  [][(/\ enrich.pc = "returned" /\ enrich.kv /\ enrich.up = AllFail
      /\ enrich'.calls = enrich.calls + 1)
       => \A j \in DOMAIN enrich'.log :
            (\E i \in DOMAIN enrich.log : enrich.log[i].id = enrich'.log[j].id)
              => /\ <<"enrich", Sha256Base64Url(enrich'.log[j].id)>> \notin DOMAIN enrich.cache
                 /\ "get" \in Range(enrich'.log[j].kvOps)
                 /\ enrich'.log[j].calls # <<>>]_vars

\* C40: when the put of an item's cache entry fails, enrichItems still
\* returns the item with the enrichment computed from the upstream answers.
C40_PutFailureKeepsEnrichment ==
  (EnrichReturned /\ enrich.kv /\ enrich.putRejects) =>
    \A j \in DOMAIN enrich.log :
      enrich.out[j] = [enriched |-> TRUE] @@ enrichTasks(enrich.items[j], enrich.up).enrich
                        @@ enrich.items[j]

\* C34: once a first-seen record exists under an item's key no later
\* aggregation overwrites it: its firstSeenTs never changes, however the gets
\* and puts of concurrent aggregations interleave.
C34_FirstSeenWrittenOnce ==
  [][\A k \in DOMAIN seen.store :
       k[1] = "item" => /\ k \in DOMAIN seen'.store
                        /\ seen'.store[k].firstSeenTs = seen.store[k].firstSeenTs]_vars
====
